---- MODULE Spec2Model ----
(***************************************************************************)
(* Authorization-and-execution core of telegram-mcp: risk classification,  *)
(* policy evaluation, approval tokens, idempotency cache and audit trail,  *)
(* as composed by executeSecured (v2 tools) and                            *)
(* TelegramBotService.executeDomainTool (Bot API tools).                   *)
(*                                                                         *)
(* Every asynchronous handler is cut at its await points: one action per   *)
(* storage statement or external call, so that concurrent invocations      *)
(* interleave exactly where the Node.js event loop lets them.              *)
(*                                                                         *)
(* Modelling conventions                                                   *)
(*  - sha256 is collision free: Sha256(x) is the tagged preimage.          *)
(*  - randomToken() never repeats: the n-th issued token is <<"tok", n>>.  *)
(*  - time is counted in units of 300 seconds.                             *)
(*  - a JSON object is the sequence of its entries in insertion order.     *)
(***************************************************************************)
EXTENDS Integers, Sequences, FiniteSets, TLC

\* The stores, the clock and the calls in flight.  The last four variables
\* are the history of the run, kept for the properties only:
\*   verified[n]  how many verifications of the n-th token have succeeded
\*   issued       the tokens handed to a caller
\*   executed[k]  how many times the domain operation has returned for
\*                invocations carrying idempotency key k
\*   returned[k]  the envelope last returned by an invocation that ran the
\*                domain operation under key k, or last passed to a direct
\*                save under k, and when it was saved
VARIABLES now, approval_requests, approval_tokens, idempotency_records,
          audit_events, permissions, calls, verified, issued, executed,
          returned

vars == <<now, approval_requests, approval_tokens, idempotency_records,
          audit_events, permissions, calls, verified, issued, executed,
          returned>>

----------------------------------------------------------------------------
(* Bounds of the model *)

MaxCalls == 2
MaxTime == 4
MaxApprovals == 1

----------------------------------------------------------------------------
(* Program constants, in units of 300 seconds *)

ApprovalTtl == 3
IdempotencyTtl == 1

----------------------------------------------------------------------------
(* JSON values: payloads and their canonical serialization *)

Num(n) == [t |-> "num", n |-> n, o |-> <<>>]
Obj(es) == [t |-> "obj", n |-> 0, o |-> es]
Entry(k, v) == [k |-> k, v |-> v]

\* Object keys of the model.  "e_nfc" stands for the key U+00E9 and "e_nfd"
\* for the key U+0065 U+0301: two different strings that are canonically
\* equivalent.
Keys == <<"chatId", "e_nfc", "e_nfd", "userId", "x", "y">>

KeyIndex(k) == CHOOSE i \in 1..Len(Keys) : Keys[i] = k

\* String.prototype.localeCompare(b, "en") as a collation weight: keys with
\* the same weight compare 0.  ICU collation compares canonically equivalent
\* strings as equal.
LocaleWeight(k) ==
  CASE k = "chatId" -> 1
    [] k = "e_nfc" -> 2
    [] k = "e_nfd" -> 2
    [] k = "userId" -> 3
    [] k = "x" -> 4
    [] k = "y" -> 5

localeCompare(a, b) ==
  IF LocaleWeight(a) < LocaleWeight(b) THEN -1
  ELSE IF LocaleWeight(a) > LocaleWeight(b) THEN 1 ELSE 0

\* Array.prototype.sort with the comparator of stableSerialize; the sort is
\* stable, so entries that compare 0 keep their insertion order.
RECURSIVE InsertEntry(_, _)
InsertEntry(sorted, e) ==
  IF sorted = <<>> THEN <<e>>
  ELSE IF localeCompare(e.k, sorted[Len(sorted)].k) >= 0
       THEN Append(sorted, e)
       ELSE Append(InsertEntry(SubSeq(sorted, 1, Len(sorted) - 1), e),
                   sorted[Len(sorted)])

RECURSIVE SortEntries(_)
SortEntries(es) ==
  IF es = <<>> THEN <<>>
  ELSE InsertEntry(SortEntries(SubSeq(es, 1, Len(es) - 1)), es[Len(es)])

\* stableSerialize: the canonical text is represented by the value whose
\* entries are in serialization order (two texts are equal iff these are).
RECURSIVE stableSerialize(_)
stableSerialize(value) ==
  IF value.t # "obj" THEN value
  ELSE LET sorted == SortEntries(value.o)
       IN  Obj([i \in 1..Len(sorted) |->
                  Entry(sorted[i].k, stableSerialize(sorted[i].v))])

sha256(value) == <<"sha256", value>>

PayloadHash(payload) == sha256(stableSerialize(payload))

\* The payloads of the model.
PayloadA == Obj(<<Entry("chatId", Num(5)), Entry("userId", Num(9))>>)
PayloadASwapped == Obj(<<Entry("userId", Num(9)), Entry("chatId", Num(5))>>)
PayloadB == Obj(<<Entry("chatId", Num(5)), Entry("userId", Num(7))>>)
PayloadNested ==
  Obj(<<Entry("chatId", Num(5)),
        Entry("x", Obj(<<Entry("x", Num(1)), Entry("y", Num(2))>>))>>)
PayloadNestedSwapped ==
  Obj(<<Entry("x", Obj(<<Entry("y", Num(2)), Entry("x", Num(1))>>)),
        Entry("chatId", Num(5))>>)
PayloadEquiv == Obj(<<Entry("e_nfc", Num(1)), Entry("e_nfd", Num(2))>>)
PayloadEquivSwapped == Obj(<<Entry("e_nfd", Num(2)), Entry("e_nfc", Num(1))>>)

AsciiPayloads ==
  {PayloadA, PayloadASwapped, PayloadB, PayloadNested, PayloadNestedSwapped}
Payloads == AsciiPayloads \cup {PayloadEquiv, PayloadEquivSwapped}

----------------------------------------------------------------------------
(* Risk classification *)

RiskLevels == {"low", "medium", "high", "critical"}
NoRisk == "undefined"

\* The dot-separated segments of the tool names of the model.
ToolSegments(tool) ==
  CASE tool = "telegram.v2.chats" -> <<"telegram", "v2", "chats">>
    [] tool = "telegram.v2.privacy" -> <<"telegram", "v2", "privacy">>
    [] tool = "telegram.v2.approval" -> <<"telegram", "v2", "approval">>
    [] tool = "telegram.v2.media" -> <<"telegram", "v2", "media">>
    [] tool = "telegram.bot.members" -> <<"telegram", "bot", "members">>
    [] tool = "telegram.bot.messages" -> <<"telegram", "bot", "messages">>
    [] tool = "telegram.bot.raw" -> <<"telegram", "bot", "raw">>

\* key = `${tool}.${operation}`; the operations of the model contain no dot.
KeySegments(tool, operation) == Append(ToolSegments(tool), operation)

\* Segments that begin with "join", "upload" or "download".
JoinSegments == {"join_chat_by_link"}
UploadDownloadSegments == {"upload_init", "download_url"}

SuffixHigh == {"ban", "unban", "promote", "demote", "delete", "remove", "revoke"}
SuffixMediumA == {"create", "invite", "import", "export", "archive", "unarchive"}
SuffixMediumB == {"update", "edit", "set", "pin", "unpin", "forward", "reply", "react"}

\* pattern.test(key) for each of the seven patterns of RULES.  A segment
\* preceded by a dot is any segment but the first; a segment followed by a
\* dot is any segment but the last.
PatternTest(pattern, segs) ==
  LET n == Len(segs)
  IN CASE pattern = "suffixHigh" -> n >= 2 /\ segs[n] \in SuffixHigh
       [] pattern = "approval" ->
            \E i \in 2..(n - 1) : segs[i] = "approval"
       [] pattern = "privacy" ->
            \E i \in 2..(n - 1) : segs[i] = "privacy"
       [] pattern = "join" ->
            \E i \in 2..n : segs[i] \in JoinSegments
       [] pattern = "suffixMediumA" -> n >= 2 /\ segs[n] \in SuffixMediumA
       [] pattern = "suffixMediumB" -> n >= 2 /\ segs[n] \in SuffixMediumB
       [] pattern = "media" ->
            \E i \in 2..(n - 1) :
               segs[i] = "media" /\ segs[i + 1] \in UploadDownloadSegments

RULES ==
  << [pattern |-> "suffixHigh", riskLevel |-> "high"],
     [pattern |-> "approval", riskLevel |-> "critical"],
     [pattern |-> "privacy", riskLevel |-> "high"],
     [pattern |-> "join", riskLevel |-> "high"],
     [pattern |-> "suffixMediumA", riskLevel |-> "medium"],
     [pattern |-> "suffixMediumB", riskLevel |-> "medium"],
     [pattern |-> "media", riskLevel |-> "medium"] >>

\* The last matching rule gives the level.
classifyRiskLastMatch(tool, operation, defaultRisk) ==
  LET segs == KeySegments(tool, operation)
      hits == {i \in 1..Len(RULES) : PatternTest(RULES[i].pattern, segs)}
  IN  IF hits # {}
      THEN RULES[CHOOSE i \in hits : \A j \in hits : i >= j].riskLevel
      ELSE IF defaultRisk # NoRisk THEN defaultRisk ELSE "low"

classifyRisk(tool, operation, defaultRisk) ==
  LET segs == KeySegments(tool, operation)
      hits == {i \in 1..Len(RULES) : PatternTest(RULES[i].pattern, segs)}
  IN  IF hits # {}
      THEN RULES[CHOOSE i \in hits : \A j \in hits : i <= j].riskLevel
      ELSE IF defaultRisk # NoRisk THEN defaultRisk ELSE "low"

\* The v2 operation map (OperationMap.riskLevel) and the Bot API method
\* matrix (BOT_METHODS_BY_NAME[method].riskLevel).
OperationRisk(tool, operation) ==
  CASE tool = "telegram.v2.chats" /\ operation = "ban_user" -> "high"
    [] tool = "telegram.v2.chats" /\ operation = "join_chat_by_link" -> "high"
    [] tool = "telegram.v2.chats" /\ operation = "edit_chat_title" -> "medium"
    [] tool = "telegram.v2.chats" /\ operation = "get_chats" -> NoRisk
    [] OTHER -> NoRisk

BotMethodRisk(method) ==
  CASE method = "banChatMember" -> "high"
    [] method = "sendMessage" -> "low"
    [] OTHER -> "critical"

----------------------------------------------------------------------------
(* Policy engine *)

riskyByRoleMinimumOperatorHigh(riskLevel) ==
  CASE riskLevel = "low" -> {"readonly", "operator", "admin", "owner"}
    [] riskLevel = "medium" -> {"operator", "admin", "owner"}
    [] riskLevel = "high" -> {"operator", "admin", "owner"}
    [] riskLevel = "critical" -> {"admin", "owner"}

riskyByRoleMinimum(riskLevel) ==
  CASE riskLevel = "low" -> {"readonly", "operator", "admin", "owner"}
    [] riskLevel = "medium" -> {"operator", "admin", "owner"}
    [] riskLevel = "high" -> {"admin", "owner"}
    [] riskLevel = "critical" -> {"admin", "owner"}

\* config.policy as loaded by the tests and by the schema defaults.
PolicyDefaultEffect == "deny"
AllowRawToolForRoles == {"owner", "admin"}

NoRule == [tool |-> "none", operations |-> {}, riskLevel |-> "low", effect |-> "deny"]

RuleMatches(permission, tool, operation) ==
  /\ permission.tool = tool
  /\ ("*" \in permission.operations \/ operation \in permission.operations)

\* `role does not allow ${riskLevel} risk operations`
RoleRiskReason(riskLevel) ==
  CASE riskLevel = "low" -> "role does not allow low risk operations"
    [] riskLevel = "medium" -> "role does not allow medium risk operations"
    [] riskLevel = "high" -> "role does not allow high risk operations"
    [] riskLevel = "critical" -> "role does not allow critical risk operations"

\* The policy section of the configuration the engine is constructed with.
PolicyConfig ==
  [defaultEffect |-> PolicyDefaultEffect,
   allowRawToolForRoles |-> AllowRawToolForRoles]

\* The metrics collaborator: null, or the value of its policyDenies counter.
NoMetrics == -1

\* `default policy effect: ${defaultEffect}`
DefaultEffectReason(defaultEffect) ==
  IF defaultEffect = "allow" THEN "default policy effect: allow"
  ELSE "default policy effect: deny"

\* The last matching rule decides.
evaluateLastMatch(config, metrics, rules, principal, tool, operation, riskLevel) ==
  LET hits == {i \in 1..Len(rules) : RuleMatches(rules[i], tool, operation)}
      matched == rules[CHOOSE i \in hits : \A j \in hits : i >= j]
  IN  IF tool = "telegram.bot.raw"
         /\ principal.roles \cap config.allowRawToolForRoles = {}
      THEN [allow |-> FALSE, reason |-> "raw tool denied by role policy",
            matchedRule |-> NoRule]
      ELSE IF principal.roles \cap riskyByRoleMinimum(riskLevel) = {}
      THEN [allow |-> FALSE, reason |-> RoleRiskReason(riskLevel),
            matchedRule |-> NoRule]
      ELSE IF hits = {}
      THEN [allow |-> config.defaultEffect = "allow",
            reason |-> DefaultEffectReason(config.defaultEffect),
            matchedRule |-> NoRule]
      ELSE IF matched.effect = "deny"
      THEN [allow |-> FALSE, reason |-> "explicit deny rule matched",
            matchedRule |-> matched]
      ELSE [allow |-> TRUE, reason |-> "explicit allow rule matched",
            matchedRule |-> matched]

\* Once the deny counter has counted a denial, everything is denied.
evaluateMetered(config, metrics, rules, principal, tool, operation, riskLevel) ==
  LET hits == {i \in 1..Len(rules) : RuleMatches(rules[i], tool, operation)}
      matched == rules[CHOOSE i \in hits : \A j \in hits : i <= j]
  IN  IF metrics # NoMetrics /\ metrics >= 1
      THEN [allow |-> FALSE, reason |-> "explicit deny rule matched",
            matchedRule |-> NoRule]
      ELSE IF tool = "telegram.bot.raw"
         /\ principal.roles \cap config.allowRawToolForRoles = {}
      THEN [allow |-> FALSE, reason |-> "raw tool denied by role policy",
            matchedRule |-> NoRule]
      ELSE IF principal.roles \cap riskyByRoleMinimum(riskLevel) = {}
      THEN [allow |-> FALSE, reason |-> RoleRiskReason(riskLevel),
            matchedRule |-> NoRule]
      ELSE IF hits = {}
      THEN [allow |-> config.defaultEffect = "allow",
            reason |-> DefaultEffectReason(config.defaultEffect),
            matchedRule |-> NoRule]
      ELSE IF matched.effect = "deny"
      THEN [allow |-> FALSE, reason |-> "explicit deny rule matched",
            matchedRule |-> matched]
      ELSE [allow |-> TRUE, reason |-> "explicit allow rule matched",
            matchedRule |-> matched]

\* The raw-tool gate comes after the rule search.
evaluateGateLast(config, metrics, rules, principal, tool, operation, riskLevel) ==
  LET hits == {i \in 1..Len(rules) : RuleMatches(rules[i], tool, operation)}
      matched == rules[CHOOSE i \in hits : \A j \in hits : i <= j]
  IN  IF principal.roles \cap riskyByRoleMinimum(riskLevel) = {}
      THEN [allow |-> FALSE, reason |-> RoleRiskReason(riskLevel),
            matchedRule |-> NoRule]
      ELSE IF hits # {} /\ matched.effect = "deny"
      THEN [allow |-> FALSE, reason |-> "explicit deny rule matched",
            matchedRule |-> matched]
      ELSE IF hits # {}
      THEN [allow |-> TRUE, reason |-> "explicit allow rule matched",
            matchedRule |-> matched]
      ELSE IF tool = "telegram.bot.raw"
              /\ principal.roles \cap config.allowRawToolForRoles = {}
      THEN [allow |-> FALSE, reason |-> "raw tool denied by role policy",
            matchedRule |-> NoRule]
      ELSE [allow |-> config.defaultEffect = "allow",
            reason |-> DefaultEffectReason(config.defaultEffect),
            matchedRule |-> NoRule]

\* A rule matches only an operation of the risk level it names.
evaluateRuleRisk(config, metrics, rules, principal, tool, operation, riskLevel) ==
  LET hits == {i \in 1..Len(rules) : RuleMatches(rules[i], tool, operation)
                                    /\ rules[i].riskLevel = riskLevel}
      matched == rules[CHOOSE i \in hits : \A j \in hits : i <= j]
  IN  IF tool = "telegram.bot.raw"
         /\ principal.roles \cap config.allowRawToolForRoles = {}
      THEN [allow |-> FALSE, reason |-> "raw tool denied by role policy",
            matchedRule |-> NoRule]
      ELSE IF principal.roles \cap riskyByRoleMinimum(riskLevel) = {}
      THEN [allow |-> FALSE, reason |-> RoleRiskReason(riskLevel),
            matchedRule |-> NoRule]
      ELSE IF hits = {}
      THEN [allow |-> config.defaultEffect = "allow",
            reason |-> DefaultEffectReason(config.defaultEffect),
            matchedRule |-> NoRule]
      ELSE IF matched.effect = "deny"
      THEN [allow |-> FALSE, reason |-> "explicit deny rule matched",
            matchedRule |-> matched]
      ELSE [allow |-> TRUE, reason |-> "explicit allow rule matched",
            matchedRule |-> matched]

\* PolicyEngine.evaluate: this.config, this.metrics and this.permissions are
\* the first three arguments.
evaluate(config, metrics, rules, principal, tool, operation, riskLevel) ==
  LET hits == {i \in 1..Len(rules) : RuleMatches(rules[i], tool, operation)}
      matched == rules[CHOOSE i \in hits : \A j \in hits : i <= j]
  IN  IF tool = "telegram.bot.raw"
         /\ principal.roles \cap config.allowRawToolForRoles = {}
      THEN [allow |-> FALSE, reason |-> "raw tool denied by role policy",
            matchedRule |-> NoRule]
      ELSE IF principal.roles \cap riskyByRoleMinimum(riskLevel) = {}
      THEN [allow |-> FALSE, reason |-> RoleRiskReason(riskLevel),
            matchedRule |-> NoRule]
      ELSE IF hits = {}
      THEN [allow |-> config.defaultEffect = "allow",
            reason |-> DefaultEffectReason(config.defaultEffect),
            matchedRule |-> NoRule]
      ELSE IF matched.effect = "deny"
      THEN [allow |-> FALSE, reason |-> "explicit deny rule matched",
            matchedRule |-> matched]
      ELSE [allow |-> TRUE, reason |-> "explicit allow rule matched",
            matchedRule |-> matched]

\* this.metrics?.policyDenies.inc({ tool }) on every denial.
policyDenies(metrics, decision) ==
  IF metrics # NoMetrics /\ ~decision.allow THEN metrics + 1 ELSE metrics

isPrivilegedAnyRole(principal) == principal.roles # {}
isPrivileged(principal) == "owner" \in principal.roles \/ "admin" \in principal.roles

----------------------------------------------------------------------------
(* Approval service configuration: config.approvals *)

ApprovalsEnabled == TRUE
RequiredRiskLevels == {"high", "critical"}

isApprovalRequired(riskLevel) ==
  ApprovalsEnabled /\ riskLevel \in RequiredRiskLevels

----------------------------------------------------------------------------
(* Principals, tokens and the records of the stores *)

Alice == [subject |-> "alice", roles |-> {"admin"}]
Carol == [subject |-> "carol", roles |-> {"owner"}]
Bob == [subject |-> "bob", roles |-> {"operator"}]

\* Alice after her token lost every role: parseRoles yields ["readonly"].
AliceReadonly == [subject |-> "alice", roles |-> {"readonly"}]

\* randomToken(): the n-th token issued; <<"tok", 0>> is a string that was
\* never issued.  NoToken is an absent approvalToken.
Token(n) == <<"tok", n>>
NoToken == <<>>
NoKey == "undefined"

NoRow == [id |-> 0, approvalRequestId |-> 0, status |-> "none", expiresAt |-> 0]
\* null: no cached response, no response yet
NoResponse == [ok |-> FALSE]
NoError == "none"
\* What the domain operation may throw.
Errors == {"E1", "E2"}
IdempotencyKeys == {"k1"}
\* config.policy rules as loaded at startup (tool_permissions of the latest
\* policy version), in list order.
StartupPermissions ==
  << [tool |-> "telegram.v2.chats", operations |-> {"*"},
      riskLevel |-> "high", effect |-> "allow"],
     [tool |-> "telegram.bot.members", operations |-> {"banChatMember"},
      riskLevel |-> "high", effect |-> "allow"],
     [tool |-> "telegram.bot.messages", operations |-> {"*"},
      riskLevel |-> "low", effect |-> "allow"] >>

\* No value encrypted yet.
NoCrypto == [plaintext |-> <<>>, altered |-> "none"]

\* No Bot API call in progress.
NoHttp == [maxRetries |-> 0, attempt |-> 0, fetches |-> 0, retried |-> <<>>]

IdleCall ==
  [kind |-> "idle", pc |-> "idle", principal |-> Alice, tool |-> "none",
   operation |-> "none", payload |-> Obj(<<>>), idempotencyKey |-> NoKey,
   dryRun |-> FALSE, approvalToken |-> NoToken, riskLevel |-> "low",
   expiresAt |-> 0, tokenRow |-> NoRow, approvalId |-> 0,
   issuedToken |-> NoToken, response |-> NoResponse, outcome |-> "pending",
   executions |-> 0, sawVerified |-> FALSE, tokenCheckAt |-> 0,
   requestCheckAt |-> 0, allow |-> FALSE, reason |-> "none",
   result |-> "none", lookupAt |-> 0, hit |-> FALSE,
   savedAt |-> 0,
   sawReturned |-> [response |-> NoResponse, savedAt |-> 0, threw |-> FALSE],
   detail |-> "none", error |-> NoError, steps |-> <<>>, wrote |-> <<>>,
   config |-> PolicyConfig, metrics |-> NoMetrics, denies |-> NoMetrics,
   rules |-> <<>>, matchedRule |-> NoRule, defaultRisk |-> NoRisk,
   via |-> "direct", crypto |-> NoCrypto, http |-> NoHttp]

\* The call has taken a step that the outside can see: a storage statement
\* or the domain operation.
Step(call, label) == [call EXCEPT !.steps = Append(@, label)]
\* The call has written an audit event.
Wrote(call, event) ==
  [call EXCEPT !.steps = Append(@, event.action), !.wrote = Append(@, event)]

Slots == 1..MaxCalls
Active == {c \in Slots : calls[c].kind # "idle"}
\* A call that has returned or thrown is handed to its caller before any
\* other continuation runs (the promise settles in the same microtask run).
NoneDone == \A d \in Slots : calls[d].pc # "done"
\* A new call takes the lowest free slot.
FreeSlot(c) == /\ c \in Slots /\ calls[c].kind = "idle"
               /\ \A d \in Slots : d < c => calls[d].kind # "idle"
               /\ NoneDone

TokenRows(tokenHash) ==
  {i \in 1..Len(approval_tokens) : approval_tokens[i].tokenHash = tokenHash}

Init ==
  /\ now = 0
  /\ approval_requests = <<>>
  /\ approval_tokens = <<>>
  /\ idempotency_records = [k \in {} |-> NoResponse]
  /\ audit_events = <<>>
  /\ permissions = StartupPermissions
  /\ calls = [c \in Slots |-> IdleCall]
  /\ verified = [n \in {} |-> 0]
  /\ issued = {}
  /\ executed = [k \in IdempotencyKeys |-> 0]
  /\ returned = [k \in IdempotencyKeys |->
                  [response |-> NoResponse, savedAt |-> 0, threw |-> FALSE]]

Tick ==
  /\ NoneDone
  /\ now < MaxTime
  /\ now' = now + 1
  /\ UNCHANGED <<approval_requests, approval_tokens, idempotency_records,
                 audit_events, permissions, calls, verified, issued,
                 executed, returned>>

\* The call returns or throws: the caller has the outcome, the slot is free.
Return(c) ==
  /\ calls[c].pc = "done"
  /\ calls' = [calls EXCEPT ![c] = IdleCall]
  /\ issued' = IF calls[c].issuedToken # NoToken
               THEN issued \cup {calls[c].issuedToken} ELSE issued
  /\ UNCHANGED <<now, approval_requests, approval_tokens, idempotency_records,
                 audit_events, permissions, verified,
                 executed, returned>>

Throw(c, error) ==
  calls' = [calls EXCEPT ![c].pc = "done", ![c].outcome = error,
                         ![c].steps = Append(@, "consumeToken")]

----------------------------------------------------------------------------
(* ApprovalService.requestApproval *)

RequestApprovalBudget ==
  Len(approval_requests)
    + Cardinality({c \in Slots : calls[c].pc = "createRequest"}) < MaxApprovals

RequestApprovalStart(c, principal, tool, operation, riskLevel, payload) ==
  /\ FreeSlot(c)
  /\ RequestApprovalBudget
  /\ calls' = [calls EXCEPT ![c] =
       [IdleCall EXCEPT !.kind = "requestApproval", !.pc = "createRequest",
                        !.principal = principal, !.tool = tool,
                        !.operation = operation, !.riskLevel = riskLevel,
                        !.payload = payload,
                        !.expiresAt = now + ApprovalTtl]]
  /\ UNCHANGED <<now, approval_requests, approval_tokens, idempotency_records,
                 audit_events, permissions, verified, issued,
                 executed, returned>>

\* repository.createRequest: INSERT INTO approval_requests
CreateRequest(c) ==
  /\ NoneDone
  /\ calls[c].pc = "createRequest"
  /\ approval_requests' = Append(approval_requests,
       [id |-> Len(approval_requests) + 1,
        principalSubject |-> calls[c].principal.subject,
        tool |-> calls[c].tool,
        operation |-> calls[c].operation,
        riskLevel |-> calls[c].riskLevel,
        payloadHash |-> PayloadHash(calls[c].payload),
        status |-> "approved",
        expiresAt |-> calls[c].expiresAt])
  /\ calls' = [calls EXCEPT ![c].pc = "createToken",
                            ![c].approvalId = Len(approval_requests) + 1]
  /\ UNCHANGED <<now, approval_tokens, idempotency_records, audit_events,
                 permissions, verified, issued,
                 executed, returned>>

\* The token row keeps the token itself.
CreateTokenPlaintext(c) ==
  /\ NoneDone
  /\ calls[c].pc = "createToken"
  /\ LET approvalToken == Token(Len(approval_tokens) + 1)
     IN /\ approval_tokens' = Append(approval_tokens,
             [id |-> Len(approval_tokens) + 1,
              approvalRequestId |-> calls[c].approvalId,
              tokenHash |-> approvalToken,
              status |-> "active",
              expiresAt |-> calls[c].expiresAt,
              usedAt |-> <<>>])
        /\ calls' = [calls EXCEPT
             ![c].pc = IF calls[c].kind = "requestApproval" THEN "done"
                       ELSE "audit.approval_request",
             ![c].outcome = IF calls[c].kind = "requestApproval" THEN "ok"
                            ELSE "pending",
             ![c].issuedToken = approvalToken]
        /\ verified' = [n \in DOMAIN verified \cup {Len(approval_tokens) + 1} |->
                          IF n \in DOMAIN verified THEN verified[n] ELSE 0]
  /\ UNCHANGED <<now, approval_requests, idempotency_records, audit_events,
                 permissions, issued,
                 executed, returned>>

\* repository.createToken: INSERT INTO approval_tokens; then the return of
\* requestApproval (or the audit write of the approval.request tool).
CreateToken(c) ==
  /\ NoneDone
  /\ calls[c].pc = "createToken"
  /\ LET approvalToken == Token(Len(approval_tokens) + 1)
     IN /\ approval_tokens' = Append(approval_tokens,
             [id |-> Len(approval_tokens) + 1,
              approvalRequestId |-> calls[c].approvalId,
              tokenHash |-> sha256(approvalToken),
              status |-> "active",
              expiresAt |-> calls[c].expiresAt,
              usedAt |-> <<>>])
        /\ calls' = [calls EXCEPT
             ![c].pc = IF calls[c].kind = "requestApproval" THEN "done"
                       ELSE "audit.approval_request",
             ![c].outcome = IF calls[c].kind = "requestApproval" THEN "ok"
                            ELSE "pending",
             ![c].issuedToken = approvalToken]
        /\ verified' = [n \in DOMAIN verified \cup {Len(approval_tokens) + 1} |->
                          IF n \in DOMAIN verified THEN verified[n] ELSE 0]
  /\ UNCHANGED <<now, approval_requests, idempotency_records, audit_events,
                 permissions, issued,
                 executed, returned>>

----------------------------------------------------------------------------
(* ApprovalService.verifyAndConsume and ApprovalRepository.consumeToken *)

TokenIndex(approvalToken) ==
  IF approvalToken = NoToken THEN 0 ELSE approvalToken[2]

SawVerified(approvalToken) ==
  /\ TokenIndex(approvalToken) \in DOMAIN verified
  /\ verified[TokenIndex(approvalToken)] > 0

VerifyStart(c, approvalToken, principal, tool, operation, riskLevel, payload) ==
  /\ FreeSlot(c)
  /\ calls' = [calls EXCEPT ![c] =
       [IdleCall EXCEPT !.kind = "verifyAndConsume",
                        !.pc = "consumeToken.select",
                        !.approvalToken = approvalToken,
                        !.principal = principal, !.tool = tool,
                        !.operation = operation, !.riskLevel = riskLevel,
                        !.payload = payload,
                        !.sawVerified = SawVerified(approvalToken)]]
  /\ UNCHANGED <<now, approval_requests, approval_tokens, idempotency_records,
                 audit_events, permissions, verified, issued,
                 executed, returned>>

\* consumeToken, first statement: SELECT ... WHERE token_hash = $1.  With no
\* row consumeToken returns null and verifyAndConsume throws.
ConsumeTokenSelect(c) ==
  /\ NoneDone
  /\ calls[c].pc = "consumeToken.select"
  /\ LET rows == TokenRows(sha256(calls[c].approvalToken))
         row == approval_tokens[CHOOSE i \in rows : TRUE]
     IN IF rows = {}
        THEN Throw(c, "Invalid approval token")
        ELSE calls' = [calls EXCEPT
               ![c].steps = Append(@, "consumeToken"),
               ![c].pc = "consumeToken.update",
               ![c].tokenRow = [id |-> row.id,
                                approvalRequestId |-> row.approvalRequestId,
                                status |-> row.status,
                                expiresAt |-> row.expiresAt]]
  /\ UNCHANGED <<now, approval_requests, approval_tokens, idempotency_records,
                 audit_events, permissions, verified, issued,
                 executed, returned>>

\* UPDATE approval_tokens SET status = 'used', used_at = NOW()
\* WHERE id = $1 AND status = 'active'
UpdateKeepsActive(row, id, t) == row
UpdateTokenRowUnguarded(row, id, t) ==
  IF row.id = id
  THEN [row EXCEPT !.status = "used", !.usedAt = <<t>>]
  ELSE row
UpdateTokenRow(row, id, t) ==
  IF row.id = id /\ row.status = "active"
  THEN [row EXCEPT !.status = "used", !.usedAt = <<t>>]
  ELSE row

\* consumeToken, second statement; consumeToken then returns the row as the
\* SELECT read it.
ConsumeTokenUpdate(c) ==
  /\ NoneDone
  /\ calls[c].pc = "consumeToken.update"
  /\ approval_tokens' =
       [i \in 1..Len(approval_tokens) |->
          UpdateTokenRow(approval_tokens[i], calls[c].tokenRow.id, now)]
  /\ calls' = [calls EXCEPT ![c].pc = "verify.token"]
  /\ UNCHANGED <<now, approval_requests, idempotency_records, audit_events,
                 permissions, verified, issued,
                 executed, returned>>

\* verifyAndConsume, the checks on the token row (tokenRow is not null here).
TokenCheckIgnoresExpiry(tokenRow, t) ==
  IF tokenRow.status # "active" THEN "Approval token is not active" ELSE "ok"
TokenCheck(tokenRow, t) ==
  IF tokenRow.status # "active" THEN "Approval token is not active"
  ELSE IF tokenRow.expiresAt < t THEN "Approval token has expired"
  ELSE "ok"

\* verifyAndConsume, the checks on the paired approval request.
RequestCheckSkipsBinding(request, input, t) ==
  IF request.status # "approved" THEN "Approval request is not approved"
  ELSE IF request.expiresAt < t THEN "Approval request has expired"
  ELSE "ok"
RequestCheckSkipsPayload(request, input, t) ==
  IF request.status # "approved" THEN "Approval request is not approved"
  ELSE IF request.principalSubject # input.principal.subject
  THEN "Approval token principal mismatch"
  ELSE IF request.tool # input.tool \/ request.operation # input.operation
  THEN "Approval token action mismatch"
  ELSE IF request.riskLevel # input.riskLevel
  THEN "Approval token risk mismatch"
  ELSE IF request.expiresAt < t THEN "Approval request has expired"
  ELSE "ok"
RequestCheck(request, input, t) ==
  IF request.status # "approved" THEN "Approval request is not approved"
  ELSE IF request.principalSubject # input.principal.subject
  THEN "Approval token principal mismatch"
  ELSE IF request.tool # input.tool \/ request.operation # input.operation
  THEN "Approval token action mismatch"
  ELSE IF request.riskLevel # input.riskLevel
  THEN "Approval token risk mismatch"
  ELSE IF request.payloadHash # PayloadHash(input.payload)
  THEN "Approval token payload mismatch"
  ELSE IF request.expiresAt < t THEN "Approval request has expired"
  ELSE "ok"

\* Lines 88-96, then the query of getRequestById is sent.
VerifyToken(c) ==
  /\ NoneDone
  /\ calls[c].pc = "verify.token"
  /\ LET error == TokenCheck(calls[c].tokenRow, now)
     IN calls' = [calls EXCEPT
          ![c].tokenCheckAt = now,
          ![c].pc = IF error = "ok" THEN "verify.request" ELSE "done",
          ![c].outcome = IF error = "ok" THEN "pending" ELSE error]
  /\ UNCHANGED <<now, approval_requests, approval_tokens, idempotency_records,
                 audit_events, permissions, verified, issued,
                 executed, returned>>

\* The checks pass and the request's id is not kept.
VerifyRequestDropsId(c) ==
  /\ NoneDone
  /\ calls[c].pc = "verify.request"
  /\ LET id == calls[c].tokenRow.approvalRequestId
         found == id \in 1..Len(approval_requests)
         error == IF found
                  THEN RequestCheck(approval_requests[id], calls[c], now)
                  ELSE "Approval request not found"
     IN /\ calls' = [calls EXCEPT
             ![c].requestCheckAt = now,
             ![c].approvalId = 0,
             ![c].pc = IF error # "ok" THEN "done"
                       ELSE IF calls[c].kind = "verifyAndConsume" THEN "done"
                       ELSE "execute",
             ![c].outcome = IF error # "ok" THEN error
                            ELSE IF calls[c].kind = "verifyAndConsume" THEN "ok"
                            ELSE "pending"]
        /\ verified' = IF error = "ok"
                       THEN [verified EXCEPT ![calls[c].tokenRow.id] =
                               IF @ < 2 THEN @ + 1 ELSE @]
                       ELSE verified
  /\ UNCHANGED <<now, approval_requests, approval_tokens, idempotency_records,
                 audit_events, permissions, issued,
                 executed, returned>>

\* getRequestById and lines 99-121.  A direct call returns {approvalId};
\* inside executeSecured the invocation goes on to the domain operation.
VerifyRequest(c) ==
  /\ NoneDone
  /\ calls[c].pc = "verify.request"
  /\ LET id == calls[c].tokenRow.approvalRequestId
         found == id \in 1..Len(approval_requests)
         error == IF found
                  THEN RequestCheck(approval_requests[id], calls[c], now)
                  ELSE "Approval request not found"
     IN /\ calls' = [calls EXCEPT
             ![c].requestCheckAt = now,
             ![c].approvalId = IF error = "ok" THEN id ELSE 0,
             ![c].pc = IF error # "ok" THEN "done"
                       ELSE IF calls[c].kind = "verifyAndConsume" THEN "done"
                       ELSE "execute",
             ![c].outcome = IF error # "ok" THEN error
                            ELSE IF calls[c].kind = "verifyAndConsume" THEN "ok"
                            ELSE "pending"]
        /\ verified' = IF error = "ok"
                       THEN [verified EXCEPT ![calls[c].tokenRow.id] =
                               IF @ < 2 THEN @ + 1 ELSE @]
                       ELSE verified
  /\ UNCHANGED <<now, approval_requests, approval_tokens, idempotency_records,
                 audit_events, permissions, issued,
                 executed, returned>>

----------------------------------------------------------------------------
(* The approval service called directly, calls overlapping *)

Subjects == {Alice, Carol}
ApprovalActions ==
  { [tool |-> "telegram.v2.chats", operation |-> "ban_user"],
    [tool |-> "telegram.v2.chats", operation |-> "join_chat_by_link"],
    [tool |-> "telegram.v2.privacy", operation |-> "ban_user"] }
ApprovalRisks == {"high", "critical"}

PresentableTokens == issued \cup {Token(0)}

\* Overlapping calls, no expiry: the clock stands still.
ApprovalNext ==
  \/ \E c \in Slots : Return(c)
  \/ \E c \in Slots :
       RequestApprovalStart(c, Alice, "telegram.v2.chats", "ban_user", "high",
                            PayloadA)
  \/ \E c \in Slots : CreateRequest(c)
  \/ \E c \in Slots : CreateToken(c)
  \/ \E c \in Slots, approvalToken \in PresentableTokens :
       VerifyStart(c, approvalToken, Alice, "telegram.v2.chats", "ban_user",
                   "high", PayloadA)
  \/ \E c \in Slots : ConsumeTokenSelect(c)
  \/ \E c \in Slots : ConsumeTokenUpdate(c)
  \/ \E c \in Slots : VerifyToken(c)
  \/ \E c \in Slots : VerifyRequest(c)

SpecApproval == Init /\ [][ApprovalNext]_vars

\* One call at a time, every argument of verifyAndConsume varied.
BindingNext ==
  \/ Return(1)
  \/ \E principal \in Subjects,
        payload \in {PayloadA, PayloadNested, PayloadEquiv} :
       /\ Active = {}
       /\ RequestApprovalStart(1, principal, "telegram.v2.chats", "ban_user",
                               "high", payload)
  \/ CreateRequest(1)
  \/ CreateToken(1)
  \/ \E approvalToken \in PresentableTokens, principal \in Subjects,
        action \in ApprovalActions, riskLevel \in ApprovalRisks,
        payload \in Payloads :
       /\ Active = {}
       /\ VerifyStart(1, approvalToken, principal, action.tool,
                      action.operation, riskLevel, payload)
  \/ ConsumeTokenSelect(1)
  \/ ConsumeTokenUpdate(1)
  \/ VerifyToken(1)
  \/ VerifyRequest(1)

SpecBinding == Init /\ [][BindingNext]_vars

\* One call at a time while the clock runs.
ExpiryNext ==
  \/ Tick
  \/ Return(1)
  \/ \E payload \in {PayloadA, PayloadB} :
       /\ Active = {}
       /\ RequestApprovalStart(1, Alice, "telegram.v2.chats", "ban_user",
                               "high", payload)
  \/ CreateRequest(1)
  \/ CreateToken(1)
  \/ \E approvalToken \in PresentableTokens, principal \in Subjects,
        payload \in {PayloadA, PayloadB} :
       /\ Active = {}
       /\ VerifyStart(1, approvalToken, principal, "telegram.v2.chats",
                      "ban_user", "high", payload)
  \/ ConsumeTokenSelect(1)
  \/ ConsumeTokenUpdate(1)
  \/ VerifyToken(1)
  \/ VerifyRequest(1)

SpecExpiry == Init /\ [][ExpiryNext]_vars

\* The arguments the approval below was requested with, and the same with one
\* of them changed.
MatchingInput ==
  [principal |-> Alice, tool |-> "telegram.v2.chats", operation |-> "ban_user",
   riskLevel |-> "high", payload |-> PayloadA]
RetryInputs ==
  { MatchingInput,
    [MatchingInput EXCEPT !.principal = Carol],
    [MatchingInput EXCEPT !.operation = "join_chat_by_link"],
    [MatchingInput EXCEPT !.riskLevel = "critical"],
    [MatchingInput EXCEPT !.payload = PayloadB] }

\* One call at a time while the clock runs: a call that fails for any of the
\* reasons can be followed by one with matching arguments.
RetryNext ==
  \/ Tick
  \/ Return(1)
  \/ /\ Active = {}
     /\ RequestApprovalStart(1, Alice, "telegram.v2.chats", "ban_user", "high",
                             PayloadA)
  \/ CreateRequest(1)
  \/ CreateToken(1)
  \/ \E approvalToken \in issued, input \in RetryInputs :
       /\ Active = {}
       /\ VerifyStart(1, approvalToken, input.principal, input.tool,
                      input.operation, input.riskLevel, input.payload)
  \/ ConsumeTokenSelect(1)
  \/ ConsumeTokenUpdate(1)
  \/ VerifyToken(1)
  \/ VerifyRequest(1)

SpecRetry == Init /\ [][RetryNext]_vars

----------------------------------------------------------------------------
(* Idempotency repository *)

\* SELECT response ... WHERE key = $1 AND expires_at > NOW()
TryGet(records, key, t) ==
  IF key \in DOMAIN records /\ records[key].expiresAt > t
  THEN records[key].response
  ELSE NoResponse

\* INSERT ... ON CONFLICT (key) DO UPDATE SET response, expires_at; the
\* operation label of an existing row is kept.
SaveDropsRecord(records, key, operation, response, t) == records
\* ON CONFLICT (key) DO NOTHING: the first record under a key is kept.
SaveKeepsFirst(records, key, operation, response, t) ==
  IF key \in DOMAIN records THEN records
  ELSE [k \in DOMAIN records \cup {key} |->
          IF k = key
          THEN [operation |-> operation, response |-> response,
                expiresAt |-> t + IdempotencyTtl]
          ELSE records[k]]
Save(records, key, operation, response, t) ==
  [k \in DOMAIN records \cup {key} |->
     IF k = key
     THEN [operation |-> IF key \in DOMAIN records
                         THEN records[key].operation ELSE operation,
           response |-> response,
           expiresAt |-> t + IdempotencyTtl]
     ELSE records[k]]

\* A direct call of tryGet(key): one statement, then the row's response or
\* null.  The call notes what was last saved under the key.
IdempotencyTryGet(c, key) ==
  /\ FreeSlot(c)
  /\ calls' = [calls EXCEPT ![c] =
       [IdleCall EXCEPT !.kind = "tryGet", !.pc = "done", !.outcome = "ok",
                        !.idempotencyKey = key, !.lookupAt = now,
                        !.sawReturned = returned[key],
                        !.response = TryGet(idempotency_records, key, now)]]
  /\ UNCHANGED <<now, approval_requests, approval_tokens, idempotency_records,
                 audit_events, permissions, verified, issued, executed,
                 returned>>

\* A direct call of save(key, operation, response) with the default
\* ttlSeconds = 300: one statement.  returned[key] notes what was saved, and
\* when.
IdempotencySave(c, key, operation, response) ==
  /\ FreeSlot(c)
  /\ idempotency_records' =
       Save(idempotency_records, key, operation, response, now)
  /\ calls' = [calls EXCEPT ![c] =
       [IdleCall EXCEPT !.kind = "save", !.pc = "done", !.outcome = "ok",
                        !.idempotencyKey = key, !.savedAt = now,
                        !.response = response]]
  /\ returned' = [returned EXCEPT ![key] =
       [response |-> response, savedAt |-> now, threw |-> @.threw]]
  /\ UNCHANGED <<now, approval_requests, approval_tokens, audit_events,
                 permissions, verified, issued, executed>>

\* The envelopes saved below, each under the label `${tool}.${operation}` of
\* its invocation.
SavedOperations == {"get_chats", "edit_chat_title"}
SavedResponses ==
  { [ok |-> TRUE, tool |-> "telegram.v2.chats", operation |-> operation,
     result |-> result] : operation \in SavedOperations, result \in {"r1", "r2"} }

\* The repository on its own: saves and lookups while the clock runs.
CacheNext ==
  \/ Tick
  \/ Return(1)
  \/ \E key \in IdempotencyKeys : IdempotencyTryGet(1, key)
  \/ \E key \in IdempotencyKeys, response \in SavedResponses :
       IdempotencySave(1, key, <<response.tool, response.operation>>, response)

SpecCache == Init /\ [][CacheNext]_vars

----------------------------------------------------------------------------
(* The two pipelines: executeSecured and executeDomainTool *)

MaxInvocations == 2

Pipeline == {"v2", "bot"}

AuthorizeEvents ==
  {i \in 1..Len(audit_events) : audit_events[i].action = "tool_authorize"}

PipelineBudget ==
  Cardinality(AuthorizeEvents)
    + Cardinality({c \in Slots : calls[c].pc = "authorize"}) < MaxInvocations

\* String(error) of an Error object: its name, a colon, its message.
\* What a storage statement that fails throws.
StorageError == "storage"

String(error) ==
  CASE error = "E1" -> "Error: E1"
    [] error = "E2" -> "Error: E2"
    [] error = StorageError -> "Error: storage"
    [] OTHER -> error

AuditEventAllowed(call, action, allowed, reason) ==
  [action |-> action,
   principalSubject |-> call.principal.subject,
   tool |-> call.tool,
   operation |-> call.operation,
   allowed |-> TRUE,
   reason |-> "execution succeeded",
   riskLevel |-> IF call.kind = "bot" THEN NoRisk ELSE call.riskLevel,
   approvalId |-> call.approvalId,
   error |-> IF call.error = NoError THEN NoError ELSE String(call.error)]
AuditEvent(call, action, allowed, reason) ==
  [action |-> action,
   principalSubject |-> call.principal.subject,
   tool |-> call.tool,
   operation |-> call.operation,
   allowed |-> allowed,
   reason |-> reason,
   riskLevel |-> IF call.kind = "bot" THEN NoRisk ELSE call.riskLevel,
   approvalId |-> call.approvalId,
   error |-> IF call.error = NoError THEN NoError ELSE String(call.error)]

\* The response envelopes.
V2Envelope(call, result) ==
  [ok |-> TRUE, tool |-> call.tool, operation |-> call.operation,
   riskLevel |-> call.riskLevel, approvalId |-> call.approvalId,
   result |-> result]
BotEnvelope(call, result) ==
  [ok |-> TRUE, method |-> call.operation, result |-> result]
Envelope(call, result) ==
  IF call.kind = "v2" THEN V2Envelope(call, result) ELSE BotEnvelope(call, result)

\* toolName = `telegram.bot.${family}`
BotFamily(tool) ==
  CASE tool = "telegram.bot.members" -> "members"
    [] tool = "telegram.bot.messages" -> "messages"
    [] OTHER -> "raw"

DryRunResponse(call) ==
  IF call.kind = "v2"
  THEN [ok |-> TRUE, dryRun |-> TRUE, tool |-> call.tool,
        operation |-> call.operation, riskLevel |-> call.riskLevel]
  ELSE [ok |-> TRUE, dryRun |-> TRUE, method |-> call.operation,
        family |-> BotFamily(call.tool)]

\* executeSecured returns {...cached, idempotent: true}; executeDomainTool
\* returns cached.
CacheHitResponse(kind, cached) ==
  IF kind = "v2"
  THEN [f \in DOMAIN cached \cup {"idempotent"} |->
          IF f = "idempotent" THEN TRUE ELSE cached[f]]
  ELSE cached

\* What follows the idempotency lookup: the approval step of executeSecured
\* (approvalExempt is passed by no caller), or resolveBotToken.
ApprovalGate(call) ==
  IF call.kind = "bot"
  THEN [pc |-> "resolveBotToken", outcome |-> "pending"]
  ELSE IF isApprovalRequired(call.riskLevel)
  THEN IF call.approvalToken = NoToken
       THEN [pc |-> "done", outcome |-> "Approval required"]
       ELSE [pc |-> "consumeToken.select", outcome |-> "pending"]
  ELSE [pc |-> "execute", outcome |-> "pending"]

\* executeSecured up to its first await: classifyRisk and evaluate.
ExecuteSecuredStart(c, principal, tool, operation, payload, idempotencyKey, dryRun, approvalToken) ==
  /\ FreeSlot(c)
  /\ PipelineBudget
  /\ LET riskLevel == classifyRisk(tool, operation, OperationRisk(tool, operation))
         decision == evaluate(PolicyConfig, NoMetrics, permissions, principal, tool, operation, riskLevel)
     IN calls' = [calls EXCEPT ![c] =
          [IdleCall EXCEPT !.kind = "v2", !.pc = "authorize",
                           !.principal = principal, !.tool = tool,
                           !.operation = operation, !.payload = payload,
                           !.idempotencyKey = idempotencyKey,
                           !.dryRun = dryRun,
                           !.approvalToken = approvalToken,
                           !.riskLevel = riskLevel,
                           !.allow = decision.allow,
                           !.reason = decision.reason,
                           !.sawVerified = SawVerified(approvalToken),
                           !.sawReturned =
                              IF idempotencyKey = NoKey THEN @
                              ELSE returned[idempotencyKey]]]
  /\ UNCHANGED <<now, approval_requests, approval_tokens, idempotency_records,
                 audit_events, permissions, verified, issued, executed,
                 returned>>

\* executeDomainTool up to its first await: the method's risk level from the
\* method matrix, and evaluate.  The request carries no approval token.
ExecuteDomainToolStart(c, principal, family, method, payload, idempotencyKey, dryRun) ==
  /\ FreeSlot(c)
  /\ PipelineBudget
  /\ LET riskLevel == BotMethodRisk(method)
         decision == evaluate(PolicyConfig, NoMetrics, permissions, principal, family, method, riskLevel)
     IN calls' = [calls EXCEPT ![c] =
          [IdleCall EXCEPT !.kind = "bot", !.pc = "authorize",
                           !.principal = principal, !.tool = family,
                           !.operation = method, !.payload = payload,
                           !.idempotencyKey = idempotencyKey,
                           !.dryRun = dryRun,
                           !.riskLevel = riskLevel,
                           !.allow = decision.allow,
                           !.reason = decision.reason,
                           !.sawReturned =
                              IF idempotencyKey = NoKey THEN @
                              ELSE returned[idempotencyKey]]]
  /\ UNCHANGED <<now, approval_requests, approval_tokens, idempotency_records,
                 audit_events, permissions, verified, issued, executed,
                 returned>>

AuthorizeOutcomeIgnoresDeny(call) ==
  IF call.dryRun THEN "dryRun"
  ELSE IF call.idempotencyKey # NoKey THEN "tryGet"
  ELSE "gate"

AuthorizeOutcomeCacheFirst(call) ==
  IF call.idempotencyKey # NoKey THEN "tryGet"
  ELSE IF ~call.allow THEN "denied"
  ELSE IF call.dryRun THEN "dryRun"
  ELSE "gate"

\* What the code does after the tool_authorize audit write.
AuthorizeOutcome(call) ==
  IF ~call.allow THEN "denied"
  ELSE IF call.dryRun THEN "dryRun"
  ELSE IF call.idempotencyKey # NoKey THEN "tryGet"
  ELSE "gate"

\* The tool_authorize audit write, then the synchronous code up to the next
\* await: denial, dry run, or the idempotency lookup / approval step.
AuditAuthorize(c) ==
  /\ NoneDone
  /\ calls[c].pc = "authorize"
  /\ LET event == AuditEvent(calls[c], "tool_authorize", calls[c].allow,
                             calls[c].reason)
         call == Wrote(calls[c], event)
         gate == ApprovalGate(call)
         next == AuthorizeOutcome(call)
     IN /\ audit_events' = Append(audit_events, event)
        /\ calls' = [calls EXCEPT ![c] =
             CASE next = "denied" ->
                    [call EXCEPT !.pc = "done",
                                 !.outcome = "Policy denied operation",
                                 !.detail = call.reason]
               [] next = "dryRun" ->
                    [call EXCEPT !.pc = "done", !.outcome = "ok",
                                 !.response = DryRunResponse(call)]
               [] next = "tryGet" -> [call EXCEPT !.pc = "tryGet"]
               [] OTHER -> [call EXCEPT !.pc = gate.pc,
                                        !.outcome = gate.outcome]]
  /\ UNCHANGED <<now, approval_requests, approval_tokens, idempotency_records,
                 permissions, verified, issued, executed, returned>>

\* idempotencyRepository.tryGet and the code up to the next await.
TryGetCached(c) ==
  /\ NoneDone
  /\ calls[c].pc = "tryGet"
  /\ LET call == Step(calls[c], "tryGet")
         cached == TryGet(idempotency_records, call.idempotencyKey, now)
         gate == ApprovalGate(call)
     IN calls' = [calls EXCEPT ![c] =
          IF cached # NoResponse
          THEN [call EXCEPT !.pc = "done", !.outcome = "ok", !.hit = TRUE,
                            !.lookupAt = now,
                            !.response = CacheHitResponse(call.kind, cached)]
          ELSE [call EXCEPT !.pc = gate.pc, !.outcome = gate.outcome,
                            !.lookupAt = now]]
  /\ UNCHANGED <<now, approval_requests, approval_tokens, idempotency_records,
                 audit_events, permissions, verified, issued, executed,
                 returned>>

\* resolveBotToken: findBotAccountByRef finds the account or throws.
ResolveBotToken(c) ==
  /\ NoneDone
  /\ calls[c].pc = "resolveBotToken"
  /\ \E found \in BOOLEAN :
       calls' = [calls EXCEPT
         ![c].pc = IF found THEN "execute" ELSE "done",
         ![c].outcome = IF found THEN "pending" ELSE "Bot account not found"]
  /\ UNCHANGED <<now, approval_requests, approval_tokens, idempotency_records,
                 audit_events, permissions, verified, issued, executed,
                 returned>>

\* executed[key]: how many times the domain operation has returned for an
\* invocation that carries the key.
CountExecution(key) ==
  executed' = IF key = NoKey THEN executed
              ELSE [executed EXCEPT ![key] = IF @ < 2 THEN @ + 1 ELSE @]

\* The domain operation returns and its tool_execute event is written before
\* the response is cached.
DomainOperationReturnsAudited(c, result) ==
  /\ NoneDone
  /\ calls[c].pc = "execute"
  /\ LET call == [Step(calls[c], "execute") EXCEPT
                    !.executions = @ + 1,
                    !.result = result,
                    !.response = Envelope(calls[c], result),
                    !.pc = IF calls[c].idempotencyKey # NoKey THEN "save"
                           ELSE "audit.execute"]
         event == AuditEvent(call, "tool_execute", TRUE, "execution succeeded")
     IN /\ audit_events' = Append(audit_events, event)
        /\ calls' = [calls EXCEPT ![c] = Wrote(call, event)]
  /\ CountExecution(calls[c].idempotencyKey)
  /\ UNCHANGED <<now, approval_requests, approval_tokens, idempotency_records,
                 permissions, verified, issued, returned>>

\* The domain operation (input.execute(), botClient.callApi) returns.
DomainOperationReturns(c, result) ==
  /\ NoneDone
  /\ calls[c].pc = "execute"
  /\ calls' = [calls EXCEPT
         ![c].steps = Append(@, "execute"),
         ![c].executions = @ + 1,
         ![c].result = result,
         ![c].response = Envelope(calls[c], result),
         ![c].pc = IF calls[c].idempotencyKey # NoKey THEN "save"
                   ELSE "audit.execute"]
  /\ CountExecution(calls[c].idempotencyKey)
  /\ UNCHANGED <<now, approval_requests, approval_tokens, idempotency_records,
                 audit_events, permissions, verified, issued, returned>>

\* The caller learns that the domain operation threw for its key.
RecordThrow(key) ==
  returned' = IF key = NoKey THEN returned
              ELSE [returned EXCEPT ![key].threw = TRUE]

\* The domain operation throws and its failure is cached under the key.
DomainOperationThrowsAndSaves(c, error) ==
  /\ NoneDone
  /\ calls[c].pc = "execute"
  /\ calls' = [calls EXCEPT
       ![c].steps = Append(@, "execute"),
       ![c].executions = @ + 1,
       ![c].error = error,
       ![c].pc = IF calls[c].kind = "v2" THEN "audit.executeFailed" ELSE "done",
       ![c].outcome = IF calls[c].kind = "v2" THEN "pending" ELSE error]
  /\ IF calls[c].kind = "v2" THEN UNCHANGED returned
     ELSE RecordThrow(calls[c].idempotencyKey)
  /\ idempotency_records' =
       IF calls[c].idempotencyKey = NoKey THEN idempotency_records
       ELSE Save(idempotency_records, calls[c].idempotencyKey,
                 <<calls[c].tool, calls[c].operation>>,
                 Envelope(calls[c], error), now)
  /\ UNCHANGED <<now, approval_requests, approval_tokens, audit_events,
                 permissions, verified, issued, executed>>

\* The domain operation throws and the token the invocation consumed is made
\* active again.
DomainOperationThrowsRollsBack(c, error) ==
  /\ NoneDone
  /\ calls[c].pc = "execute"
  /\ calls' = [calls EXCEPT
       ![c].steps = Append(@, "execute"),
       ![c].executions = @ + 1,
       ![c].error = error,
       ![c].pc = IF calls[c].kind = "v2" THEN "audit.executeFailed" ELSE "done",
       ![c].outcome = IF calls[c].kind = "v2" THEN "pending" ELSE error]
  /\ IF calls[c].kind = "v2" THEN UNCHANGED returned
     ELSE RecordThrow(calls[c].idempotencyKey)
  /\ approval_tokens' =
       [i \in 1..Len(approval_tokens) |->
          IF approval_tokens[i].id = calls[c].tokenRow.id
          THEN [approval_tokens[i] EXCEPT !.status = "active"]
          ELSE approval_tokens[i]]
  /\ UNCHANGED <<now, approval_requests, idempotency_records,
                 audit_events, permissions, verified, issued, executed>>

\* The domain operation throws: executeSecured catches and audits,
\* executeDomainTool lets the error through.
DomainOperationThrows(c, error) ==
  /\ NoneDone
  /\ calls[c].pc = "execute"
  /\ calls' = [calls EXCEPT
       ![c].steps = Append(@, "execute"),
       ![c].executions = @ + 1,
       ![c].error = error,
       ![c].pc = IF calls[c].kind = "v2" THEN "audit.executeFailed" ELSE "done",
       ![c].outcome = IF calls[c].kind = "v2" THEN "pending" ELSE error]
  /\ IF calls[c].kind = "v2" THEN UNCHANGED returned
     ELSE RecordThrow(calls[c].idempotencyKey)
  /\ UNCHANGED <<now, approval_requests, approval_tokens, idempotency_records,
                 audit_events, permissions, verified, issued, executed>>

\* idempotencyRepository.save(key, `${tool}.${operation}`, response)
SaveResponse(c) ==
  /\ NoneDone
  /\ calls[c].pc = "save"
  /\ idempotency_records' =
       Save(idempotency_records, calls[c].idempotencyKey,
            <<calls[c].tool, calls[c].operation>>, calls[c].response, now)
  /\ calls' = [calls EXCEPT ![c].pc = "audit.execute", ![c].savedAt = now,
                            ![c].steps = Append(@, "save")]
  /\ UNCHANGED <<now, approval_requests, approval_tokens, audit_events,
                 permissions, verified, issued, executed, returned>>

\* The tool_execute audit write of a success, and the return of the envelope.
AuditExecute(c) ==
  /\ NoneDone
  /\ calls[c].pc = "audit.execute"
  /\ LET event == AuditEvent(calls[c], "tool_execute", TRUE,
                             "execution succeeded")
     IN /\ audit_events' = Append(audit_events, event)
        /\ calls' = [calls EXCEPT ![c] =
             [Wrote(calls[c], event) EXCEPT !.pc = "done", !.outcome = "ok"]]
  /\ returned' =
       IF calls[c].idempotencyKey = NoKey THEN returned
       ELSE [returned EXCEPT ![calls[c].idempotencyKey] =
               [response |-> calls[c].response, savedAt |-> calls[c].savedAt,
                threw |-> FALSE]]
  /\ UNCHANGED <<now, approval_requests, approval_tokens, idempotency_records,
                 permissions, verified, issued, executed>>

\* The catch block throws a new error made of the serialized one.
AuditExecuteFailedThrowsNew(c) ==
  /\ NoneDone
  /\ calls[c].pc = "audit.executeFailed"
  /\ LET event == AuditEvent(calls[c], "tool_execute", FALSE,
                             "execution failed")
     IN /\ audit_events' = Append(audit_events, event)
        /\ calls' = [calls EXCEPT ![c] =
             [Wrote(calls[c], event) EXCEPT !.pc = "done",
                                            !.outcome = String(calls[c].error)]]
  /\ RecordThrow(calls[c].idempotencyKey)
  /\ UNCHANGED <<now, approval_requests, approval_tokens, idempotency_records,
                 permissions, verified, issued, executed>>

\* The catch block of executeSecured: the tool_execute audit write of a
\* failure, then the error is thrown again.
AuditExecuteFailed(c) ==
  /\ NoneDone
  /\ calls[c].pc = "audit.executeFailed"
  /\ LET event == AuditEvent(calls[c], "tool_execute", FALSE,
                             "execution failed")
     IN /\ audit_events' = Append(audit_events, event)
        /\ calls' = [calls EXCEPT ![c] =
             [Wrote(calls[c], event) EXCEPT !.pc = "done",
                                            !.outcome = calls[c].error]]
  /\ RecordThrow(calls[c].idempotencyKey)
  /\ UNCHANGED <<now, approval_requests, approval_tokens, idempotency_records,
                 permissions, verified, issued, executed>>

----------------------------------------------------------------------------
(* Storage statements that fail inside an invocation *)

\* The tool_authorize write fails and the invocation goes on as if the event
\* had been written.
AuditAuthorizeFailsOpen(c) ==
  /\ NoneDone
  /\ calls[c].pc = "authorize"
  /\ LET call == [calls[c] EXCEPT !.error = StorageError]
         gate == ApprovalGate(call)
         next == AuthorizeOutcome(call)
     IN calls' = [calls EXCEPT ![c] =
          CASE next = "denied" ->
                 [call EXCEPT !.pc = "done",
                              !.outcome = "Policy denied operation",
                              !.detail = call.reason]
            [] next = "dryRun" ->
                 [call EXCEPT !.pc = "done", !.outcome = "ok",
                              !.response = DryRunResponse(call)]
            [] next = "tryGet" -> [call EXCEPT !.pc = "tryGet"]
            [] OTHER -> [call EXCEPT !.pc = gate.pc,
                                     !.outcome = gate.outcome]]
  /\ UNCHANGED <<now, approval_requests, approval_tokens, idempotency_records,
                 audit_events, permissions, verified, issued, executed,
                 returned>>

\* auditService.log of the tool_authorize event rejects: the await is outside
\* any try block, so the invocation throws what the write threw.
AuditAuthorizeFails(c) ==
  /\ NoneDone
  /\ calls[c].pc = "authorize"
  /\ calls' = [calls EXCEPT ![c].pc = "done", ![c].error = StorageError,
                            ![c].outcome = StorageError]
  /\ UNCHANGED <<now, approval_requests, approval_tokens, idempotency_records,
                 audit_events, permissions, verified, issued, executed,
                 returned>>

\* idempotencyRepository.save rejects: inside the try block of executeSecured
\* the catch block takes over; executeDomainTool throws.
SaveResponseFails(c) ==
  /\ NoneDone
  /\ calls[c].pc = "save"
  /\ calls' = [calls EXCEPT
       ![c].error = StorageError,
       ![c].pc = IF calls[c].kind = "v2" THEN "audit.executeFailed" ELSE "done",
       ![c].outcome = IF calls[c].kind = "v2" THEN "pending" ELSE StorageError]
  /\ UNCHANGED <<now, approval_requests, approval_tokens, idempotency_records,
                 audit_events, permissions, verified, issued, executed,
                 returned>>

\* The tool_execute write of a success rejects: the same.
AuditExecuteFails(c) ==
  /\ NoneDone
  /\ calls[c].pc = "audit.execute"
  /\ calls' = [calls EXCEPT
       ![c].error = StorageError,
       ![c].pc = IF calls[c].kind = "v2" THEN "audit.executeFailed" ELSE "done",
       ![c].outcome = IF calls[c].kind = "v2" THEN "pending" ELSE StorageError]
  /\ UNCHANGED <<now, approval_requests, approval_tokens, idempotency_records,
                 audit_events, permissions, verified, issued, executed,
                 returned>>

\* The tool_execute write in the catch block rejects: the invocation throws
\* what that write threw.
AuditExecuteFailedFails(c) ==
  /\ NoneDone
  /\ calls[c].pc = "audit.executeFailed"
  /\ calls' = [calls EXCEPT ![c].pc = "done", ![c].error = StorageError,
                            ![c].outcome = StorageError]
  /\ RecordThrow(calls[c].idempotencyKey)
  /\ UNCHANGED <<now, approval_requests, approval_tokens, idempotency_records,
                 audit_events, permissions, verified, issued, executed>>

----------------------------------------------------------------------------
(* The telegram.v2.approval.request tool *)

\* The handler up to the first await of requestApproval: isPrivileged,
\* classifyRisk without a default risk, payloadHash and expiresAt.
ApprovalRequestStart(c, principal, tool, operation, payload) ==
  /\ FreeSlot(c)
  /\ RequestApprovalBudget
  /\ calls' = [calls EXCEPT ![c] =
       IF ~isPrivileged(principal)
       THEN [IdleCall EXCEPT !.kind = "approval.request", !.pc = "done",
                             !.principal = principal, !.tool = tool,
                             !.operation = operation, !.payload = payload,
                             !.outcome = "approval.request requires admin or owner role"]
       ELSE [IdleCall EXCEPT !.kind = "approval.request",
                             !.pc = "createRequest",
                             !.principal = principal, !.tool = tool,
                             !.operation = operation, !.payload = payload,
                             !.riskLevel = classifyRisk(tool, operation, NoRisk),
                             !.expiresAt = now + ApprovalTtl]]
  /\ UNCHANGED <<now, approval_requests, approval_tokens, idempotency_records,
                 audit_events, permissions, verified, issued, executed,
                 returned>>

\* The approval_request audit write, and the return of the plaintext token.
AuditApprovalRequest(c) ==
  /\ NoneDone
  /\ calls[c].pc = "audit.approval_request"
  /\ audit_events' = Append(audit_events,
       [action |-> "approval_request",
        principalSubject |-> calls[c].principal.subject,
        tool |-> "telegram.v2.approval.request",
        operation |-> "request",
        allowed |-> TRUE,
        reason |-> "approval token issued",
        riskLevel |-> calls[c].riskLevel,
        approvalId |-> calls[c].approvalId,
        metadata |-> [targetTool |-> calls[c].tool,
                      targetOperation |-> calls[c].operation,
                      expiresAt |-> calls[c].expiresAt]])
  /\ calls' = [calls EXCEPT ![c].pc = "done", ![c].outcome = "ok"]
  /\ UNCHANGED <<now, approval_requests, approval_tokens, idempotency_records,
                 permissions, verified, issued, executed, returned>>

----------------------------------------------------------------------------
(* The approval projections: telegram.v2.approval.status and the resource
   telegram://v2/approvals/recent *)

\* null: no approval request of that id.
NoRequest == [id |-> 0]

\* getRequestById: the columns of the row, or null.
getRequestById(requests, id) ==
  IF id \in 1..Len(requests)
  THEN [id |-> requests[id].id,
        principalSubject |-> requests[id].principalSubject,
        tool |-> requests[id].tool,
        operation |-> requests[id].operation,
        riskLevel |-> requests[id].riskLevel,
        payloadHash |-> requests[id].payloadHash,
        status |-> requests[id].status,
        expiresAt |-> requests[id].expiresAt]
  ELSE NoRequest

\* listRecent: the rows, newest first, without payload_hash.
listRecent(requests) ==
  [i \in 1..Len(requests) |->
     LET row == requests[Len(requests) + 1 - i]
     IN [id |-> row.id,
         principalSubject |-> row.principalSubject,
         tool |-> row.tool,
         operation |-> row.operation,
         riskLevel |-> row.riskLevel,
         status |-> row.status,
         expiresAt |-> row.expiresAt]]

\* The telegram.v2.approval.status handler: one query, then the result.
GetApprovalStatus(c, approvalId) ==
  /\ FreeSlot(c)
  /\ calls' = [calls EXCEPT ![c] =
       [IdleCall EXCEPT !.kind = "approval.status", !.pc = "done",
                        !.outcome = "ok", !.approvalId = approvalId,
                        !.response =
                           [ok |-> TRUE,
                            status |-> getRequestById(approval_requests, approvalId)]]]
  /\ UNCHANGED <<now, approval_requests, approval_tokens, idempotency_records,
                 audit_events, permissions, verified, issued, executed,
                 returned>>

\* The resource telegram://v2/approvals/recent: one query, then the contents.
ListRecent(c) ==
  /\ FreeSlot(c)
  /\ calls' = [calls EXCEPT ![c] =
       [IdleCall EXCEPT !.kind = "approvals.recent", !.pc = "done",
                        !.outcome = "ok",
                        !.response =
                           [ok |-> TRUE,
                            approvals |-> listRecent(approval_requests)]]]
  /\ UNCHANGED <<now, approval_requests, approval_tokens, idempotency_records,
                 audit_events, permissions, verified, issued, executed,
                 returned>>

----------------------------------------------------------------------------
(* The telegram.v2.approval.execute tool *)

\* The tools registered by registerDomainTool, the keys of invokers.
InvokerTools == {"telegram.v2.chats", "telegram.v2.privacy", "telegram.v2.media"}

\* The handler up to the first await of the target's executeSecured:
\* isPrivileged, invokers.get, and the target's invoke with the approval
\* token, the idempotency key and no dryRun.
ApprovalExecuteStart(c, principal, tool, operation, payload, idempotencyKey, approvalToken) ==
  /\ FreeSlot(c)
  /\ PipelineBudget
  /\ LET riskLevel == classifyRisk(tool, operation, OperationRisk(tool, operation))
         decision == evaluate(PolicyConfig, NoMetrics, permissions, principal, tool, operation, riskLevel)
         call == [IdleCall EXCEPT !.via = "approval.execute",
                                  !.principal = principal, !.tool = tool,
                                  !.operation = operation,
                                  !.payload = payload,
                                  !.idempotencyKey = idempotencyKey,
                                  !.approvalToken = approvalToken]
     IN calls' = [calls EXCEPT ![c] =
          IF ~isPrivileged(principal)
          THEN [call EXCEPT !.kind = "approval.execute", !.pc = "done",
                            !.outcome = "approval.execute requires admin or owner role"]
          ELSE IF tool \notin InvokerTools
          THEN [call EXCEPT !.kind = "approval.execute", !.pc = "done",
                            !.outcome = "Unknown v2 tool"]
          ELSE [call EXCEPT !.kind = "v2", !.pc = "authorize",
                            !.riskLevel = riskLevel,
                            !.allow = decision.allow,
                            !.reason = decision.reason,
                            !.sawVerified = SawVerified(approvalToken),
                            !.sawReturned =
                               IF idempotencyKey = NoKey THEN @
                               ELSE returned[idempotencyKey]]]
  /\ UNCHANGED <<now, approval_requests, approval_tokens, idempotency_records,
                 audit_events, permissions, verified, issued, executed,
                 returned>>

\* toolResult({ok: true, executed: `${tool}.${operation}`, result}) of a call
\* that came through approval.execute and has returned.
ApprovalExecuteResult(call) ==
  IF call.via = "approval.execute"
  THEN [ok |-> TRUE, executed |-> <<call.tool, call.operation>>,
        result |-> call.response]
  ELSE call.response

----------------------------------------------------------------------------
(* The telegram.mtproto.core tool *)

\* The handler of send_text up to the first await of
\* MtprotoSessionManager.sendText.  The handler parses no principal.
MtprotoSendTextStart(c) ==
  /\ FreeSlot(c)
  /\ calls' = [calls EXCEPT ![c] =
       [IdleCall EXCEPT !.kind = "mtproto", !.pc = "findMtprotoAccount",
                        !.tool = "telegram.mtproto.core",
                        !.operation = "send_text"]]
  /\ UNCHANGED <<now, approval_requests, approval_tokens, idempotency_records,
                 audit_events, permissions, verified, issued, executed,
                 returned>>

\* accountRepository.findMtprotoAccountByRef: without an account sendText
\* returns {ok: false, error: "account not found"}.
MtprotoFindAccount(c) ==
  /\ NoneDone
  /\ calls[c].pc = "findMtprotoAccount"
  /\ \E found \in BOOLEAN :
       calls' = [calls EXCEPT
         ![c].pc = IF found THEN "sendMessage" ELSE "done",
         ![c].outcome = IF found THEN "pending" ELSE "ok",
         ![c].response = IF found THEN @
                         ELSE [ok |-> FALSE, error |-> "account not found"]]
  /\ UNCHANGED <<now, approval_requests, approval_tokens, idempotency_records,
                 audit_events, permissions, verified, issued, executed,
                 returned>>

\* client.sendMessage: the Telegram call.  sendText catches what it throws
\* and returns {ok: false, error}.
MtprotoSendMessage(c, result) ==
  /\ NoneDone
  /\ calls[c].pc = "sendMessage"
  /\ calls' = [calls EXCEPT
       ![c].steps = Append(@, "execute"),
       ![c].executions = @ + 1,
       ![c].pc = "done",
       ![c].outcome = "ok",
       ![c].response = IF result \in Errors
                       THEN [ok |-> FALSE, error |-> String(result)]
                       ELSE [ok |-> TRUE, messageId |-> result]]
  /\ UNCHANGED <<now, approval_requests, approval_tokens, idempotency_records,
                 audit_events, permissions, verified, issued, executed,
                 returned>>

----------------------------------------------------------------------------
(* The tools served over MCP, invocations overlapping *)

V2Operations == {"join_chat_by_link", "get_chats"}
BotMethods ==
  { [family |-> "telegram.bot.members", method |-> "banChatMember"],
    [family |-> "telegram.bot.messages", method |-> "sendMessage"] }
OptionalKeys == IdempotencyKeys \cup {NoKey}
OptionalTokens == issued \cup {NoToken}

Next ==
  \/ \E c \in Slots : Return(c)
  \/ \E c \in Slots :
       ApprovalRequestStart(c, Alice, "telegram.v2.chats", "join_chat_by_link",
                            PayloadA)
  \/ \E c \in Slots : CreateRequest(c)
  \/ \E c \in Slots : CreateToken(c)
  \/ \E c \in Slots : AuditApprovalRequest(c)
  \/ \E c \in Slots, operation \in V2Operations,
        idempotencyKey \in OptionalKeys, approvalToken \in OptionalTokens :
       ExecuteSecuredStart(c, Alice, "telegram.v2.chats", operation, PayloadA,
                           idempotencyKey, FALSE, approvalToken)
  \/ \E c \in Slots, m \in BotMethods, idempotencyKey \in OptionalKeys :
       ExecuteDomainToolStart(c, Alice, m.family, m.method, PayloadA,
                              idempotencyKey, FALSE)
  \/ \E c \in Slots : AuditAuthorize(c)
  \/ \E c \in Slots : TryGetCached(c)
  \/ \E c \in Slots : ConsumeTokenSelect(c)
  \/ \E c \in Slots : ConsumeTokenUpdate(c)
  \/ \E c \in Slots : VerifyToken(c)
  \/ \E c \in Slots : VerifyRequest(c)
  \/ \E c \in Slots : ResolveBotToken(c)
  \/ \E c \in Slots : DomainOperationReturns(c, "r1")
  \/ \E c \in Slots : DomainOperationThrows(c, "E1")
  \/ \E c \in Slots : SaveResponse(c)
  \/ \E c \in Slots : AuditExecute(c)
  \/ \E c \in Slots : AuditExecuteFailed(c)

Spec == Init /\ [][Next]_vars

----------------------------------------------------------------------------
(* An approval requested and then presented, with the clock *)

GrantOperations == {"ban_user", "join_chat_by_link"}

GrantNext ==
  \/ Tick
  \/ Return(1)
  \/ \E operation \in GrantOperations :
       ApprovalRequestStart(1, Alice, "telegram.v2.chats", operation, PayloadA)
  \/ CreateRequest(1)
  \/ CreateToken(1)
  \/ AuditApprovalRequest(1)
  \/ \E operation \in GrantOperations, approvalToken \in OptionalTokens :
       ExecuteSecuredStart(1, Alice, "telegram.v2.chats", operation, PayloadA,
                           NoKey, FALSE, approvalToken)
  \/ AuditAuthorize(1)
  \/ ConsumeTokenSelect(1)
  \/ ConsumeTokenUpdate(1)
  \/ VerifyToken(1)
  \/ VerifyRequest(1)
  \/ DomainOperationReturns(1, "r1")
  \/ DomainOperationThrows(1, "E1")
  \/ AuditExecute(1)
  \/ AuditExecuteFailed(1)

SpecGrant == Init /\ [][GrantNext]_vars

\* One approval-gated operation, requested, approved and invoked again and
\* again with the tokens issued, its domain operation returning or throwing.
ConsumeNext ==
  \/ Tick
  \/ Return(1)
  \/ ApprovalRequestStart(1, Alice, "telegram.v2.chats", "join_chat_by_link",
                          PayloadA)
  \/ CreateRequest(1)
  \/ CreateToken(1)
  \/ AuditApprovalRequest(1)
  \/ \E approvalToken \in issued :
       ExecuteSecuredStart(1, Alice, "telegram.v2.chats", "join_chat_by_link",
                           PayloadA, NoKey, FALSE, approvalToken)
  \/ AuditAuthorize(1)
  \/ ConsumeTokenSelect(1)
  \/ ConsumeTokenUpdate(1)
  \/ VerifyToken(1)
  \/ VerifyRequest(1)
  \/ DomainOperationReturns(1, "r1")
  \/ DomainOperationThrows(1, "E1")
  \/ AuditExecute(1)
  \/ AuditExecuteFailed(1)

SpecConsume == Init /\ [][ConsumeNext]_vars

\* Invocations of a v2 tool, one after another, in which any write to the
\* audit log or to the idempotency cache may fail.
FailureNext ==
  \/ Return(1)
  \/ ApprovalRequestStart(1, Alice, "telegram.v2.chats", "join_chat_by_link",
                          PayloadA)
  \/ CreateRequest(1)
  \/ CreateToken(1)
  \/ AuditApprovalRequest(1)
  \/ \E operation \in V2Operations, idempotencyKey \in OptionalKeys,
        approvalToken \in OptionalTokens :
       ExecuteSecuredStart(1, Alice, "telegram.v2.chats", operation, PayloadA,
                           idempotencyKey, FALSE, approvalToken)
  \/ AuditAuthorize(1)
  \/ AuditAuthorizeFails(1)
  \/ TryGetCached(1)
  \/ ConsumeTokenSelect(1)
  \/ ConsumeTokenUpdate(1)
  \/ VerifyToken(1)
  \/ VerifyRequest(1)
  \/ DomainOperationReturns(1, "r1")
  \/ DomainOperationThrows(1, "E1")
  \/ SaveResponse(1)
  \/ SaveResponseFails(1)
  \/ AuditExecute(1)
  \/ AuditExecuteFails(1)
  \/ AuditExecuteFailed(1)
  \/ AuditExecuteFailedFails(1)

SpecFailure == Init /\ [][FailureNext]_vars

----------------------------------------------------------------------------
(* Invocations carrying the same idempotency key, one after another *)

Results == {"r1", "r2"}

ReplayNext ==
  \/ Tick
  \/ Return(1)
  \/ \E dryRun \in BOOLEAN :
       ExecuteSecuredStart(1, Alice, "telegram.v2.chats", "get_chats",
                           PayloadA, "k1", dryRun, NoToken)
  \/ ExecuteSecuredStart(1, Bob, "telegram.v2.chats", "ban_user",
                         PayloadA, "k1", FALSE, NoToken)
  \/ ExecuteDomainToolStart(1, Alice, "telegram.bot.messages", "sendMessage",
                            PayloadA, "k1", FALSE)
  \/ AuditAuthorize(1)
  \/ TryGetCached(1)
  \/ ResolveBotToken(1)
  \/ \E result \in Results : DomainOperationReturns(1, result)
  \/ DomainOperationThrows(1, "E1")
  \/ SaveResponse(1)
  \/ AuditExecute(1)
  \/ AuditExecuteFailed(1)

SpecReplay == Init /\ [][ReplayNext]_vars

\* Every invocation carries the key k1 and is allowed by the policy: two
\* principals, two operations of one v2 tool, and a Bot API method.
SharedKeyNext ==
  \/ Return(1)
  \/ \E principal \in {Alice, Carol},
        operation \in {"get_chats", "edit_chat_title"} :
       ExecuteSecuredStart(1, principal, "telegram.v2.chats", operation,
                           PayloadA, "k1", FALSE, NoToken)
  \/ ExecuteDomainToolStart(1, Alice, "telegram.bot.messages", "sendMessage",
                            PayloadA, "k1", FALSE)
  \/ AuditAuthorize(1)
  \/ TryGetCached(1)
  \/ ResolveBotToken(1)
  \/ DomainOperationReturns(1, "r1")
  \/ SaveResponse(1)
  \/ AuditExecute(1)

SpecSharedKey == Init /\ [][SharedKeyNext]_vars

----------------------------------------------------------------------------
(* Invocations of every kind, one after another, the clock standing still *)

\* Alice is allowed every operation below; Bob, an operator, is denied
\* join_chat_by_link and banChatMember for their high risk.
InvocationNext ==
  \/ Return(1)
  \/ ApprovalRequestStart(1, Alice, "telegram.v2.chats", "join_chat_by_link",
                          PayloadA)
  \/ CreateRequest(1)
  \/ CreateToken(1)
  \/ AuditApprovalRequest(1)
  \/ \E operation \in V2Operations, idempotencyKey \in OptionalKeys,
        dryRun \in BOOLEAN, approvalToken \in OptionalTokens :
       ExecuteSecuredStart(1, Alice, "telegram.v2.chats", operation,
                           PayloadA, idempotencyKey, dryRun, approvalToken)
  \/ \E approvalToken \in OptionalTokens :
       ExecuteSecuredStart(1, Bob, "telegram.v2.chats", "join_chat_by_link",
                           PayloadA, "k1", FALSE, approvalToken)
  \/ \E dryRun \in BOOLEAN :
       ExecuteDomainToolStart(1, Alice, "telegram.bot.members",
                              "banChatMember", PayloadA, "k1", dryRun)
  \/ ExecuteDomainToolStart(1, Bob, "telegram.bot.members", "banChatMember",
                            PayloadA, "k1", FALSE)
  \/ MtprotoSendTextStart(1)
  \/ MtprotoFindAccount(1)
  \/ \E result \in {"r1", "E1"} : MtprotoSendMessage(1, result)
  \/ AuditAuthorize(1)
  \/ TryGetCached(1)
  \/ ConsumeTokenSelect(1)
  \/ ConsumeTokenUpdate(1)
  \/ VerifyToken(1)
  \/ VerifyRequest(1)
  \/ ResolveBotToken(1)
  \/ DomainOperationReturns(1, "r1")
  \/ \E error \in Errors : DomainOperationThrows(1, error)
  \/ SaveResponse(1)
  \/ AuditExecute(1)
  \/ AuditExecuteFailed(1)

SpecInvocation == Init /\ [][InvocationNext]_vars

----------------------------------------------------------------------------
(* Keyed invocations while the rule list and the caller's roles change *)

\* A rule list whose first matching rule denies edit_chat_title.
DenyEditPermissions ==
  << [tool |-> "telegram.v2.chats", operations |-> {"edit_chat_title"},
      riskLevel |-> "medium", effect |-> "deny"] >> \o StartupPermissions

RuleLists == {StartupPermissions, DenyEditPermissions, <<>>}

\* The rule list is overwritten one element at a time, this call writing the
\* first.
UpdatePermissionsInSteps(rules) ==
  /\ NoneDone
  /\ permissions' =
       IF rules = <<>> \/ permissions = <<>> THEN rules
       ELSE <<rules[1]>> \o Tail(permissions)
  /\ UNCHANGED <<now, approval_requests, approval_tokens, idempotency_records,
                 audit_events, calls, verified, issued, executed, returned>>

\* PolicyEngine.updatePermissions: the rule list is replaced in place.
UpdatePermissions(rules) ==
  /\ NoneDone
  /\ permissions' = rules
  /\ UNCHANGED <<now, approval_requests, approval_tokens, idempotency_records,
                 audit_events, calls, verified, issued, executed, returned>>

ReauthorizeNext ==
  \/ Tick
  \/ Return(1)
  \/ \E rules \in RuleLists : UpdatePermissions(rules)
  \/ \E principal \in {Alice, AliceReadonly} :
       ExecuteSecuredStart(1, principal, "telegram.v2.chats",
                           "edit_chat_title", PayloadA, "k1", FALSE, NoToken)
  \/ AuditAuthorize(1)
  \/ TryGetCached(1)
  \/ DomainOperationReturns(1, "r1")
  \/ SaveResponse(1)
  \/ AuditExecute(1)

SpecReauthorize == Init /\ [][ReauthorizeNext]_vars

----------------------------------------------------------------------------
(* The policy engine on its own *)

Role == {"owner", "admin", "operator", "readonly"}

EvaluatedTools == {"telegram.v2.chats", "telegram.v2.privacy", "telegram.bot.raw"}
EvaluatedOperations == {"edit_chat_title", "get_chats"}

\* Rule lists with an allow rule for the raw tool, and with an allow rule
\* ahead of a deny rule that matches the same operation.
RawAllowPermissions ==
  << [tool |-> "telegram.bot.raw", operations |-> {"*"},
      riskLevel |-> "high", effect |-> "allow"],
     [tool |-> "telegram.v2.chats", operations |-> {"get_chats"},
      riskLevel |-> "low", effect |-> "allow"],
     [tool |-> "telegram.v2.chats", operations |-> {"*"},
      riskLevel |-> "high", effect |-> "deny"] >>

PolicyRuleLists == RuleLists \cup {RawAllowPermissions}

\* config.policy: the defaults, a default effect of allow, and a raw-tool
\* role list that names operator.
PolicyConfigs ==
  {PolicyConfig,
   [defaultEffect |-> "allow", allowRawToolForRoles |-> {"owner", "admin"}],
   [defaultEffect |-> "deny",
    allowRawToolForRoles |-> {"owner", "admin", "operator"}]}

\* The metrics collaborator is absent, or its counter stands at 0 or 1.
MetricsStates == {NoMetrics, 0, 1}

\* PolicyEngine.evaluate of an engine constructed with config and metrics, on
\* the current rule list; the decision is returned.  evaluate is synchronous:
\* its caller holds the decision until it lets go of it.
Evaluate(c, config, metrics, principal, tool, operation, riskLevel) ==
  /\ calls[c].kind = "idle"
  /\ LET decision == evaluate(config, metrics, permissions, principal, tool, operation, riskLevel)
     IN calls' = [calls EXCEPT ![c] =
          [IdleCall EXCEPT !.kind = "evaluate", !.pc = "done",
                           !.outcome = "ok",
                           !.config = config, !.metrics = metrics,
                           !.denies = policyDenies(metrics, decision),
                           !.rules = permissions,
                           !.principal = principal, !.tool = tool,
                           !.operation = operation,
                           !.riskLevel = riskLevel,
                           !.allow = decision.allow,
                           !.reason = decision.reason,
                           !.matchedRule = decision.matchedRule]]
  /\ UNCHANGED <<now, approval_requests, approval_tokens, idempotency_records,
                 audit_events, permissions, verified, issued, executed,
                 returned>>

PolicyNext ==
  \/ Return(1)
  \/ \E rules \in PolicyRuleLists : UpdatePermissions(rules)
  \/ \E config \in PolicyConfigs, metrics \in MetricsStates,
        roles \in SUBSET Role, tool \in EvaluatedTools,
        operation \in EvaluatedOperations, riskLevel \in RiskLevels :
       Evaluate(1, config, metrics, [subject |-> "alice", roles |-> roles],
                tool, operation, riskLevel)

SpecPolicy == Init /\ [][PolicyNext]_vars

\* Two decisions held side by side: the second evaluate is called while the
\* caller still holds the first decision.
PairNext ==
  \/ Return(1)
  \/ Return(2)
  \/ \E rules \in PolicyRuleLists : UpdatePermissions(rules)
  \/ \E c \in {1, 2}, config \in PolicyConfigs, metrics \in MetricsStates,
        roles \in {{"operator"}, {"admin"}},
        tool \in {"telegram.v2.chats", "telegram.bot.raw"},
        riskLevel \in {"medium", "high"} :
       Evaluate(c, config, metrics, [subject |-> "alice", roles |-> roles],
                tool, "edit_chat_title", riskLevel)

SpecPolicyPair == Init /\ [][PairNext]_vars

----------------------------------------------------------------------------
(* The approval tools, called by privileged and other principals *)

\* Alice is an admin; Bob, an operator, and AliceReadonly are not privileged.
\* approvalToken is a required string: an issued token, or one never issued.
\* telegram.bot.members is not a tool of invokers.
PrivilegeNext ==
  \/ Tick
  \/ Return(1)
  \/ \E principal \in {Alice, Bob, AliceReadonly} :
       ApprovalRequestStart(1, principal, "telegram.v2.chats",
                            "join_chat_by_link", PayloadA)
  \/ CreateRequest(1)
  \/ CreateToken(1)
  \/ AuditApprovalRequest(1)
  \/ \E principal \in {Alice, Bob},
        tool \in {"telegram.v2.chats", "telegram.bot.members"},
        approvalToken \in issued \cup {Token(0)} :
       ApprovalExecuteStart(1, principal, tool, "join_chat_by_link", PayloadA,
                            NoKey, approvalToken)
  \/ AuditAuthorize(1)
  \/ ConsumeTokenSelect(1)
  \/ ConsumeTokenUpdate(1)
  \/ VerifyToken(1)
  \/ VerifyRequest(1)
  \/ DomainOperationReturns(1, "r1")
  \/ AuditExecute(1)

SpecPrivilege == Init /\ [][PrivilegeNext]_vars

----------------------------------------------------------------------------
(* A token from its issuance to its use, and the projections of approvals *)

SecrecyNext ==
  \/ Tick
  \/ Return(1)
  \/ \E principal \in {Alice, Carol} :
       ApprovalRequestStart(1, principal, "telegram.v2.chats",
                            "join_chat_by_link", PayloadA)
  \/ CreateRequest(1)
  \/ CreateToken(1)
  \/ AuditApprovalRequest(1)
  \/ \E approvalId \in 1..(MaxApprovals + 1) : GetApprovalStatus(1, approvalId)
  \/ ListRecent(1)
  \/ \E approvalToken \in issued :
       ExecuteSecuredStart(1, Alice, "telegram.v2.chats", "join_chat_by_link",
                           PayloadA, NoKey, FALSE, approvalToken)
  \/ AuditAuthorize(1)
  \/ ConsumeTokenSelect(1)
  \/ ConsumeTokenUpdate(1)
  \/ VerifyToken(1)
  \/ VerifyRequest(1)
  \/ DomainOperationReturns(1, "r1")
  \/ AuditExecute(1)

SpecSecrecy == Init /\ [][SecrecyNext]_vars

----------------------------------------------------------------------------
(* The risk classifier on its own *)

ClassifiedTools ==
  {"telegram.v2.chats", "telegram.v2.privacy", "telegram.v2.approval",
   "telegram.v2.media", "telegram.bot.members"}

ClassifiedOperations ==
  {"revoke", "set", "ban", "invite", "join_chat_by_link", "upload_init",
   "get_chats", "edit_chat_title"}

\* classifyRisk({tool, operation, defaultRisk}); the level is returned.
ClassifyRisk(c, tool, operation, defaultRisk) ==
  /\ calls[c].kind = "idle"
  /\ calls' = [calls EXCEPT ![c] =
       [IdleCall EXCEPT !.kind = "classifyRisk", !.pc = "done",
                        !.outcome = "ok", !.tool = tool,
                        !.operation = operation,
                        !.defaultRisk = defaultRisk,
                        !.riskLevel = classifyRisk(tool, operation, defaultRisk)]]
  /\ UNCHANGED <<now, approval_requests, approval_tokens, idempotency_records,
                 audit_events, permissions, verified, issued, executed,
                 returned>>

ClassifyNext ==
  \/ Return(1)
  \/ \E tool \in ClassifiedTools, operation \in ClassifiedOperations,
        defaultRisk \in RiskLevels \cup {NoRisk} :
       ClassifyRisk(1, tool, operation, defaultRisk)

SpecClassify == Init /\ [][ClassifyNext]_vars

----------------------------------------------------------------------------
(* Properties: the approval service *)

\* Calls of verifyAndConsume that have returned or thrown.
VerifyDone == {c \in Slots : calls[c].kind = "verifyAndConsume" /\ calls[c].pc = "done"}

\* Those whose token hash resolved to a stored row.
VerifyDoneKnown == {c \in VerifyDone : calls[c].tokenRow # NoRow}

\* The approval request paired with the token row the call read.
RequestOf(c) == approval_requests[calls[c].tokenRow.approvalRequestId]

SameSubject(c) == RequestOf(c).principalSubject = calls[c].principal.subject
SameAction(c) == /\ RequestOf(c).tool = calls[c].tool
                 /\ RequestOf(c).operation = calls[c].operation
SameRisk(c) == RequestOf(c).riskLevel = calls[c].riskLevel

\* The token row was active when read and unexpired when checked.
FreshToken(c) == /\ calls[c].tokenRow.status = "active"
                 /\ calls[c].tokenRow.expiresAt >= calls[c].tokenCheckAt

\* Two JSON values that differ at most in the order of object keys: equal
\* once the entries of every object are ordered by the key strings themselves.
RECURSIVE InsertByKey(_, _)
InsertByKey(sorted, e) ==
  IF sorted = <<>> THEN <<e>>
  ELSE IF KeyIndex(e.k) >= KeyIndex(sorted[Len(sorted)].k)
       THEN Append(sorted, e)
       ELSE Append(InsertByKey(SubSeq(sorted, 1, Len(sorted) - 1), e),
                   sorted[Len(sorted)])

RECURSIVE SortByKey(_)
SortByKey(es) ==
  IF es = <<>> THEN <<>>
  ELSE InsertByKey(SortByKey(SubSeq(es, 1, Len(es) - 1)), es[Len(es)])

RECURSIVE KeyNormal(_)
KeyNormal(value) ==
  IF value.t # "obj" THEN value
  ELSE LET sorted == SortByKey(value.o)
       IN  Obj([i \in 1..Len(sorted) |->
                  Entry(sorted[i].k, KeyNormal(sorted[i].v))])

SameUpToKeyOrder(a, b) == KeyNormal(a) = KeyNormal(b)

\* The payload the request was issued for, as its stored hash binds it.
IssuedPayload(c) == RequestOf(c).payloadHash[2]

\* C2: of the verifyAndConsume calls that present one token, at most one
\* succeeds, however their storage statements interleave.
C2_SingleWinner == \A n \in DOMAIN verified : verified[n] <= 1

\* C3: a verifyAndConsume call that starts after a call for the same token
\* has succeeded fails, whatever its arguments.
C3_SingleUse ==
  \A c \in VerifyDone : calls[c].sawVerified => calls[c].outcome # "ok"

C3_Witness ==
  \E c \in VerifyDone :
    /\ calls[c].sawVerified
    /\ SameSubject(c) /\ SameAction(c) /\ SameRisk(c)
    /\ RequestOf(c).payloadHash = PayloadHash(calls[c].payload)
    /\ calls[c].outcome = "Approval token is not active"

\* C4: a call whose payload hashes differently from the stored payload hash
\* never succeeds, and it fails with the payload-mismatch error when the
\* token is active and unexpired and principal, tool, operation and risk
\* level match; a successful call presents the issued payload up to the
\* order of its keys.
C4_PayloadBinding ==
  \A c \in VerifyDoneKnown :
    /\ RequestOf(c).payloadHash # PayloadHash(calls[c].payload) =>
         /\ calls[c].outcome # "ok"
         /\ FreshToken(c) /\ SameSubject(c) /\ SameAction(c) /\ SameRisk(c) =>
              calls[c].outcome = "Approval token payload mismatch"
    /\ calls[c].outcome = "ok" =>
         SameUpToKeyOrder(calls[c].payload, IssuedPayload(c))

C4_Witness ==
  \E c \in VerifyDoneKnown :
    /\ FreshToken(c) /\ SameSubject(c) /\ SameAction(c) /\ SameRisk(c)
    /\ ~SameUpToKeyOrder(calls[c].payload, IssuedPayload(c))
    /\ calls[c].outcome = "Approval token payload mismatch"

BindingErrors ==
  {"Approval token principal mismatch", "Approval token action mismatch",
   "Approval token risk mismatch"}

\* C6: a call whose principal subject, tool, operation or risk level differs
\* from the request's never succeeds; on an active, unexpired token it fails
\* with the error of the first differing field (principal, then action, then
\* risk), and those errors differ from each other and from the invalid-token,
\* not-active and expired errors.
C6_ActionBinding ==
  /\ \A c \in VerifyDoneKnown :
       /\ ~(SameSubject(c) /\ SameAction(c) /\ SameRisk(c)) =>
            calls[c].outcome # "ok"
       /\ FreshToken(c) /\ ~SameSubject(c) =>
            calls[c].outcome = "Approval token principal mismatch"
       /\ FreshToken(c) /\ SameSubject(c) /\ ~SameAction(c) =>
            calls[c].outcome = "Approval token action mismatch"
       /\ FreshToken(c) /\ SameSubject(c) /\ SameAction(c) /\ ~SameRisk(c) =>
            calls[c].outcome = "Approval token risk mismatch"
       /\ calls[c].outcome \in BindingErrors => FreshToken(c)
  /\ \A c \in VerifyDone :
       calls[c].tokenRow = NoRow => calls[c].outcome = "Invalid approval token"

C6_Witness ==
  \E c \in VerifyDoneKnown :
    /\ FreshToken(c) /\ SameSubject(c) /\ SameAction(c) /\ ~SameRisk(c)
    /\ calls[c].outcome = "Approval token risk mismatch"

\* C8: on a fresh token, with principal, tool, operation and risk level
\* matching, a payload that differs from the issued one only in the order of
\* object keys is accepted.
C8_KeyOrderIndependent ==
  \A c \in VerifyDoneKnown :
    /\ FreshToken(c) /\ SameSubject(c) /\ SameAction(c) /\ SameRisk(c)
    /\ SameUpToKeyOrder(calls[c].payload, IssuedPayload(c))
    => calls[c].outcome = "ok"

\* C7 as stated: an active token whose expiresAt has passed fails with the
\* token-expired error, a token whose request's expiresAt has passed fails
\* with the request-expired error, and neither fails with invalid-token.
C7_ExpiryErrors ==
  \A c \in VerifyDoneKnown :
    calls[c].tokenRow.status = "active" =>
      /\ calls[c].tokenRow.expiresAt < calls[c].tokenCheckAt =>
           calls[c].outcome = "Approval token has expired"
      /\ RequestOf(c).expiresAt < now =>
           calls[c].outcome = "Approval request has expired"
      /\ calls[c].outcome # "Invalid approval token"

\* C7 as amended: an active token whose expiresAt has passed at the token
\* check fails with the token-expired error, and so does a token whose
\* request's expiresAt has passed by then, the two being equal; the
\* request-expired error is the outcome when the expiry passes between the
\* token check and the request check of a call whose arguments all match;
\* invalid-token is the outcome exactly when no row holds the token's hash.
C7_ExpiryErrorsAmended ==
  /\ \A c \in VerifyDoneKnown :
       calls[c].tokenRow.status = "active" =>
         /\ calls[c].tokenRow.expiresAt < calls[c].tokenCheckAt =>
              calls[c].outcome = "Approval token has expired"
         /\ RequestOf(c).expiresAt < calls[c].tokenCheckAt =>
              calls[c].outcome = "Approval token has expired"
         /\ ( /\ FreshToken(c) /\ SameSubject(c) /\ SameAction(c) /\ SameRisk(c)
              /\ RequestOf(c).payloadHash = PayloadHash(calls[c].payload)
              /\ RequestOf(c).expiresAt < calls[c].requestCheckAt )
            => calls[c].outcome = "Approval request has expired"
  /\ \A c \in VerifyDone :
       calls[c].outcome = "Invalid approval token"
         <=> TokenRows(sha256(calls[c].approvalToken)) = {}

C7_Witness ==
  \E c \in VerifyDoneKnown :
    /\ calls[c].tokenRow.status = "active"
    /\ calls[c].tokenRow.expiresAt >= calls[c].tokenCheckAt
    /\ RequestOf(c).expiresAt < calls[c].requestCheckAt
    /\ calls[c].outcome = "Approval request has expired"

----------------------------------------------------------------------------
(* Properties: the pipelines *)

PipelineCalls == {c \in Slots : calls[c].kind \in Pipeline}

\* C1: in both pipelines, when the risk level of an invocation requires
\* approval, the domain operation is invoked only after verifyAndConsume
\* has succeeded for the token of that invocation, and an invocation without
\* a token ends with the approval-required error, its domain operation not
\* invoked.
C1_ApprovalBeforeExecution ==
  \A c \in PipelineCalls :
    isApprovalRequired(calls[c].riskLevel) =>
      /\ calls[c].executions > 0 => calls[c].approvalId # 0
      /\ ( /\ calls[c].pc = "done"
           /\ calls[c].approvalToken = NoToken
           /\ calls[c].allow /\ ~calls[c].dryRun /\ ~calls[c].hit )
         => /\ calls[c].outcome = "Approval required"
            /\ calls[c].executions = 0

\* C5: a v2 invocation that presents a token issued by
\* telegram.v2.approval.request to the same principal for the same tool,
\* operation and payload, the token active and the checks made before the
\* expiry, passes the verification: it ends in no error of verifyAndConsume.
C5_GrantedTokenAccepted ==
  \A c \in PipelineCalls :
    ( /\ calls[c].kind = "v2"
      /\ calls[c].pc = "done"
      /\ calls[c].tokenRow # NoRow
      /\ FreshToken(c)
      /\ RequestOf(c).expiresAt >= calls[c].requestCheckAt
      /\ SameSubject(c)
      /\ SameAction(c)
      /\ IssuedPayload(c) = stableSerialize(calls[c].payload) )
    => calls[c].outcome \in {"ok"} \cup Errors

\* C9: whatever the interleaving of the invocations that carry one
\* idempotency key, the domain operation returns at most once for the key.
C9_AtMostOnce == \A k \in IdempotencyKeys : executed[k] <= 1

\* An invocation that started after an invocation with the same key had
\* returned its envelope, and that looked the key up before the record of
\* that envelope expired.
Replayable(c) ==
  /\ calls[c].pc = "done"
  /\ calls[c].idempotencyKey # NoKey
  /\ calls[c].sawReturned.response # NoResponse
  /\ calls[c].lookupAt < calls[c].sawReturned.savedAt + IdempotencyTtl

\* C10 as stated: an invocation that follows a successful invocation with
\* the same key before the record expires (and that the policy allows, no
\* dry run) returns the identical envelope, the domain operation not invoked
\* again.
C10_IdenticalReplay ==
  \A c \in PipelineCalls :
    (Replayable(c) /\ calls[c].allow /\ ~calls[c].dryRun)
    => /\ calls[c].outcome = "ok"
       /\ calls[c].response = calls[c].sawReturned.response
       /\ calls[c].executions = 0

\* C10: an invocation that follows a successful invocation with the same
\* key, passes the policy, is no dry run and looks the key up before the
\* record expires, returns the stored envelope -- as it is from
\* executeDomainTool, with the added field idempotent = true from
\* executeSecured -- and does not invoke the domain operation.
C10_Replay ==
  \A c \in PipelineCalls :
    (Replayable(c) /\ calls[c].allow /\ ~calls[c].dryRun)
    => /\ calls[c].outcome = "ok"
       /\ calls[c].executions = 0
       /\ calls[c].kind = "bot" =>
            calls[c].response = calls[c].sawReturned.response
       /\ calls[c].kind = "v2" =>
            /\ DOMAIN calls[c].response =
                 DOMAIN calls[c].sawReturned.response \cup {"idempotent"}
            /\ calls[c].response.idempotent = TRUE
            /\ \A f \in DOMAIN calls[c].sawReturned.response :
                 calls[c].response[f] = calls[c].sawReturned.response[f]

\* executeSecured has replayed an envelope saved after the clock moved.
C10_Witness ==
  \E c \in PipelineCalls :
    /\ Replayable(c) /\ calls[c].hit
    /\ calls[c].kind = "v2"
    /\ calls[c].sawReturned.response.result = "r2"
    /\ calls[c].sawReturned.savedAt > 0

----------------------------------------------------------------------------
(* Properties: failures, audit trail and frame conditions *)

\* The call has taken the step.
Did(call, label) == \E i \in 1..Len(call.steps) : call.steps[i] = label

\* The audit events of one action that the call has written.
WroteOf(call, action) ==
  {i \in 1..Len(call.wrote) : call.wrote[i].action = action}

\* The errors of verifyAndConsume, and the error of a missing token.
ApprovalErrors ==
  { "Approval required", "Invalid approval token",
    "Approval token is not active", "Approval token has expired",
    "Approval request not found", "Approval request is not approved",
    "Approval token principal mismatch", "Approval token action mismatch",
    "Approval token risk mismatch", "Approval token payload mismatch",
    "Approval request has expired" }

\* C11: an invocation whose domain operation throws writes no idempotency
\* record, and the invocation with the same key that follows it, allowed,
\* no dry run and past the approval step (and, for a bot tool, with its
\* account found), misses the cache and invokes the domain operation.
C11_NoRecordOnFailure ==
  \A c \in PipelineCalls :
    /\ calls[c].error # NoError => ~Did(calls[c], "save")
    /\ ( /\ calls[c].pc = "done"
         /\ calls[c].idempotencyKey # NoKey
         /\ calls[c].sawReturned.threw
         /\ calls[c].allow /\ ~calls[c].dryRun
         /\ calls[c].outcome \notin ApprovalErrors \cup {"Bot account not found"} )
       => /\ ~calls[c].hit
          /\ calls[c].executions = 1

\* An invocation has run the domain operation again under the key of an
\* invocation whose domain operation threw.
C11_Witness ==
  \E c \in PipelineCalls :
    /\ calls[c].pc = "done"
    /\ calls[c].sawReturned.threw
    /\ calls[c].idempotencyKey = "k1"
    /\ calls[c].executions = 1
    /\ calls[c].outcome = "ok"

\* C12: an invocation writes no tool_authorize event before its policy
\* evaluation and exactly one after it, whose allowed and reason are those
\* of the policy decision; the event is in the audit store when the
\* invocation ends, as denied or otherwise.
C12_AuthorizeAudited ==
  \A c \in PipelineCalls :
    LET call == calls[c]
        decision == evaluate(PolicyConfig, NoMetrics, permissions, call.principal, call.tool,
                             call.operation, call.riskLevel)
    IN  IF call.pc = "authorize"
        THEN WroteOf(call, "tool_authorize") = {}
        ELSE /\ WroteOf(call, "tool_authorize") = {1}
             /\ call.wrote[1].allowed = decision.allow
             /\ call.wrote[1].reason = decision.reason
             /\ call.wrote[1].tool = call.tool
             /\ call.wrote[1].operation = call.operation
             /\ call.wrote[1].principalSubject = call.principal.subject
             /\ \E i \in 1..Len(audit_events) : audit_events[i] = call.wrote[1]
             /\ call.outcome = "Policy denied operation" <=> ~decision.allow

\* Both pipelines have denied an invocation.
C12_Witness ==
  /\ \E c \in PipelineCalls :
       /\ calls[c].kind = "bot"
       /\ calls[c].outcome = "Policy denied operation"
       /\ ~calls[c].wrote[1].allowed
  /\ \E i \in 1..Len(audit_events) :
       /\ audit_events[i].action = "tool_authorize"
       /\ audit_events[i].tool = "telegram.v2.chats"
       /\ ~audit_events[i].allowed

\* C13: an invocation that has ended wrote exactly one tool_execute event
\* if it called the domain operation, whether that returned or threw, and
\* none otherwise, in both pipelines.
C13_ExecuteAudited ==
  \A c \in PipelineCalls :
    calls[c].pc = "done" =>
      Cardinality(WroteOf(calls[c], "tool_execute")) =
        IF calls[c].executions > 0 THEN 1 ELSE 0

\* C14: whatever the tool, the Telegram client is called only by an
\* invocation that has been given an allow decision and has written its
\* tool_authorize event.
C14_AuthorizedBeforeCall ==
  \A c \in Active :
    calls[c].executions > 0 =>
      /\ calls[c].allow
      /\ WroteOf(calls[c], "tool_authorize") # {}
      /\ calls[c].wrote[1].action = "tool_authorize"
      /\ calls[c].wrote[1].allowed

\* A denied invocation, once its tool_authorize event is written, has ended
\* with the policy-denial error that carries the reason of the decision,
\* having taken no other step.
DeniedOutcome ==
  \A c \in PipelineCalls :
    (~calls[c].allow /\ calls[c].pc # "authorize") =>
      /\ calls[c].pc = "done"
      /\ calls[c].outcome = "Policy denied operation"
      /\ calls[c].detail =
           evaluate(PolicyConfig, NoMetrics, permissions, calls[c].principal, calls[c].tool,
                    calls[c].operation, calls[c].riskLevel).reason
      /\ calls[c].steps = <<"tool_authorize">>
      /\ ~calls[c].wrote[1].allowed
      /\ calls[c].executions = 0
      /\ ~calls[c].hit
      /\ calls[c].tokenRow = NoRow

\* A step taken while a denied invocation is in flight leaves every store
\* as it is, but for the one tool_authorize event with allowed = false.
DeniedStep ==
  \A c \in PipelineCalls :
    ~calls[c].allow =>
      /\ idempotency_records' = idempotency_records
      /\ approval_tokens' = approval_tokens
      /\ approval_requests' = approval_requests
      /\ executed' = executed
      /\ verified' = verified
      /\ \/ audit_events' = audit_events
         \/ /\ calls[c].pc = "authorize"
            /\ Len(audit_events') = Len(audit_events) + 1
            /\ SubSeq(audit_events', 1, Len(audit_events)) = audit_events
            /\ audit_events'[Len(audit_events')].action = "tool_authorize"
            /\ ~audit_events'[Len(audit_events')].allowed

\* C15: a denied invocation ends with the policy-denial error carrying the
\* reason; it reads no idempotency record, verifies and consumes no token,
\* does not invoke the domain operation, and writes nothing but the
\* tool_authorize event with allowed = false.
C15_DeniedFrame == []DeniedOutcome /\ [][DeniedStep]_vars

\* An invocation was denied that carried the key of a cached response and
\* a token that is still active.
C15_Witness ==
  \E c \in PipelineCalls :
    /\ calls[c].outcome = "Policy denied operation"
    /\ TryGet(idempotency_records, calls[c].idempotencyKey, now) # NoResponse
    /\ \E i \in TokenRows(sha256(calls[c].approvalToken)) :
         approval_tokens[i].status = "active"

\* An allowed dry run, once its tool_authorize event is written, has ended
\* with the synthetic result that carries the computed risk level, having
\* taken no other step.
DryRunOutcome ==
  \A c \in PipelineCalls :
    (calls[c].allow /\ calls[c].dryRun /\ calls[c].pc # "authorize") =>
      /\ calls[c].pc = "done"
      /\ calls[c].outcome = "ok"
      /\ calls[c].response.dryRun
      /\ calls[c].steps = <<"tool_authorize">>
      /\ calls[c].wrote[1].allowed
      /\ calls[c].executions = 0
      /\ ~calls[c].hit
      /\ calls[c].tokenRow = NoRow
      /\ "riskLevel" \in DOMAIN calls[c].response
      /\ calls[c].response.riskLevel = calls[c].riskLevel

\* A step taken while an allowed dry run is in flight leaves every store as
\* it is, but for the one tool_authorize event.
DryRunStep ==
  \A c \in PipelineCalls :
    (calls[c].allow /\ calls[c].dryRun) =>
      /\ idempotency_records' = idempotency_records
      /\ approval_tokens' = approval_tokens
      /\ approval_requests' = approval_requests
      /\ executed' = executed
      /\ verified' = verified
      /\ \/ audit_events' = audit_events
         \/ /\ calls[c].pc = "authorize"
            /\ Len(audit_events') = Len(audit_events) + 1
            /\ SubSeq(audit_events', 1, Len(audit_events)) = audit_events
            /\ audit_events'[Len(audit_events')].action = "tool_authorize"
            /\ audit_events'[Len(audit_events')].allowed

\* C16: an allowed dry run returns a synthetic result carrying the computed
\* risk level and changes nothing but for the single tool_authorize event:
\* no idempotency lookup or write, no token verification or consumption, no
\* domain operation and no tool_execute event, whatever key or token is
\* supplied and whatever the risk level.
C16_DryRunFrame == []DryRunOutcome /\ [][DryRunStep]_vars

\* The invocations whose key has a live cached response while the policy
\* decision, evaluated on the rule list and roles of the invocation, is deny.
DeniedOnCachedKey ==
  {c \in PipelineCalls :
     /\ calls[c].idempotencyKey # NoKey
     /\ TryGet(idempotency_records, calls[c].idempotencyKey, now) # NoResponse
     /\ ~calls[c].allow}

\* C17: authorization is evaluated afresh on every invocation: when the rule
\* list or the caller's roles have turned the decision to deny after a
\* response was cached, an invocation with that key is denied, audited as
\* denied, and does not get the cached response.
C17_FreshAuthorization ==
  \A c \in DeniedOnCachedKey :
    calls[c].pc # "authorize" =>
      /\ calls[c].pc = "done"
      /\ calls[c].outcome = "Policy denied operation"
      /\ calls[c].response = NoResponse
      /\ ~calls[c].hit
      /\ ~Did(calls[c], "tryGet")
      /\ audit_events[Len(audit_events)] = calls[c].wrote[1]
      /\ calls[c].wrote[1].action = "tool_authorize"
      /\ ~calls[c].wrote[1].allowed

\* Alice's response was cached under a key; she then lost her role, and her
\* invocation with the same key was denied.
C17_Witness ==
  \E c \in DeniedOnCachedKey :
    /\ calls[c].pc = "done"
    /\ calls[c].principal = AliceReadonly
    /\ returned[calls[c].idempotencyKey].response # NoResponse
    /\ permissions = StartupPermissions

\* The visible steps of executeSecured, in the order of the claim.
StepOrder ==
  <<"tool_authorize", "tryGet", "consumeToken", "execute", "save",
    "tool_execute">>

StepRank(label) == CHOOSE i \in 1..Len(StepOrder) : StepOrder[i] = label

\* The steps an invocation of executeSecured has taken are steps of
\* StepOrder, each at most once, in the order of StepOrder.
StepsInOrder ==
  \A c \in PipelineCalls :
    calls[c].kind = "v2" =>
      /\ \A i \in 1..Len(calls[c].steps) :
           \E k \in 1..Len(StepOrder) : StepOrder[k] = calls[c].steps[i]
      /\ \A i, j \in 1..Len(calls[c].steps) :
           i < j => StepRank(calls[c].steps[i]) < StepRank(calls[c].steps[j])

\* The steps are what the stores show: a step of an invocation that writes
\* an audit event, writes an idempotency record, reads one or calls the
\* domain operation is recorded as that step, and as one step; the token
\* row is updated within the consumeToken step, after its SELECT.
StepsAreEffects ==
  \A c \in PipelineCalls :
    (calls[c].kind = "v2" /\ calls'[c].kind = "v2") =>
      LET before == calls[c].steps
          after == calls'[c].steps
          taken == after[Len(after)]
      IN /\ Len(after) <= Len(before) + 1
         /\ SubSeq(after, 1, Len(before)) = before
         /\ audit_events' # audit_events =>
              /\ Len(after) = Len(before) + 1
              /\ taken = audit_events'[Len(audit_events')].action
         /\ idempotency_records' # idempotency_records =>
              (Len(after) = Len(before) + 1 /\ taken = "save")
         /\ approval_tokens' # approval_tokens =>
              (after # <<>> /\ taken = "consumeToken")
         /\ calls'[c].executions # calls[c].executions =>
              (Len(after) = Len(before) + 1 /\ taken = "execute")
         /\ calls'[c].lookupAt # calls[c].lookupAt \/ calls'[c].hit # calls[c].hit =>
              (Len(after) = Len(before) + 1 /\ taken = "tryGet")

\* C18: within one invocation the visible steps occur in this order, none
\* reordered: tool_authorize write, idempotency lookup, approval-token
\* consumption, domain operation call, idempotency write, tool_execute write.
C18_StepOrder == []StepsInOrder /\ [][StepsAreEffects]_vars

\* An invocation with a key and a token has taken all six steps.
C18_Witness ==
  \E c \in PipelineCalls :
    /\ calls[c].kind = "v2"
    /\ calls[c].pc = "done"
    /\ calls[c].steps = StepOrder
    /\ calls[c].tokenRow # NoRow
    /\ idempotency_records[calls[c].idempotencyKey].response = calls[c].response

\* The invocations of executeSecured whose domain operation has thrown.
ExecutionThrew ==
  {c \in PipelineCalls : calls[c].kind = "v2" /\ calls[c].error # NoError}

\* The tool_execute event of a failed execution.
FailureEvent(call) ==
  LET event == call.wrote[Len(call.wrote)]
  IN /\ event.action = "tool_execute"
     /\ ~event.allowed
     /\ event.reason = "execution failed"
     /\ event.error = String(call.error)
     /\ event.tool = call.tool
     /\ event.operation = call.operation
     /\ audit_events[Len(audit_events)] = event

\* C19: when the domain operation throws E, the tool_execute event with
\* allowed = false and E serialized in it is written before the error is
\* surfaced, and the error surfaced is E itself.
C19_FailureAudited ==
  \A c \in ExecutionThrew :
    /\ calls[c].pc = "done" =>
         (calls[c].outcome = calls[c].error /\ FailureEvent(calls[c]))
    /\ calls[c].pc # "done" =>
         (calls[c].outcome = "pending" /\ calls[c].pc = "audit.executeFailed")
    /\ Cardinality(WroteOf(calls[c], "tool_execute")) <= 1

\* The domain operation threw E2 and the invocation has ended.
C19_Witness ==
  \E c \in ExecutionThrew :
    /\ calls[c].pc = "done"
    /\ calls[c].error = "E2"
    /\ calls[c].idempotencyKey # NoKey

\* The decisions PolicyEngine.evaluate has returned.
Evaluated == {c \in Slots : calls[c].kind = "evaluate"}

\* The highest risk level a role is good for, and the levels in order.
RiskRank(riskLevel) ==
  CASE riskLevel = "low" -> 1
    [] riskLevel = "medium" -> 2
    [] riskLevel = "high" -> 3
    [] riskLevel = "critical" -> 4

RoleCeiling(role) ==
  CASE role = "readonly" -> 1
    [] role = "operator" -> 2
    [] role = "admin" -> 4
    [] role = "owner" -> 4

DeniedByRoleFloor(call) ==
  ~call.allow /\ call.reason = RoleRiskReason(call.riskLevel)

\* C20: the risk/role floor of evaluate.  A principal whose only role is
\* readonly is denied above low; one whose only role is operator is denied
\* at high and critical; one holding admin or owner is never denied with the
\* risk/role reason; and with several roles one qualifying role is enough.
C20_RoleFloor ==
  \A c \in Evaluated :
    LET call == calls[c]
        roles == call.principal.roles
    IN /\ (roles = {"readonly"} /\ RiskRank(call.riskLevel) > 1) =>
            /\ ~call.allow
            /\ call.tool # "telegram.bot.raw" => DeniedByRoleFloor(call)
       /\ (roles = {"operator"} /\ RiskRank(call.riskLevel) > 2) =>
            /\ ~call.allow
            /\ call.tool # "telegram.bot.raw" => DeniedByRoleFloor(call)
       /\ roles \cap {"admin", "owner"} # {} => ~DeniedByRoleFloor(call)
       /\ (\E role \in roles : RiskRank(call.riskLevel) <= RoleCeiling(role)) =>
            ~DeniedByRoleFloor(call)

\* A principal holding readonly and operator was allowed a medium-risk
\* operation: operator qualifies, readonly does not.
C20_Witness ==
  \E c \in Evaluated :
    /\ calls[c].principal.roles = {"readonly", "operator"}
    /\ calls[c].riskLevel = "medium"
    /\ calls[c].allow

\* C21 as stated: a principal holding neither owner nor admin is always
\* denied for the raw tool telegram.bot.raw, whatever the operation, the risk
\* level and the rules.
C21_RawGateOwnerAdmin ==
  \A c \in Evaluated :
    (calls[c].tool = "telegram.bot.raw"
       /\ calls[c].principal.roles \cap {"owner", "admin"} = {}) =>
      ~calls[c].allow

\* C21: a principal none of whose roles is in the configured
\* allowRawToolForRoles (owner and admin by default) is always denied for
\* the raw tool, with no rule matched, whatever the operation, the risk
\* level, the rules and the default effect.
C21_RawGate ==
  \A c \in Evaluated :
    (calls[c].tool = "telegram.bot.raw"
       /\ calls[c].principal.roles \cap calls[c].config.allowRawToolForRoles = {}) =>
      /\ ~calls[c].allow
      /\ calls[c].reason = "raw tool denied by role policy"
      /\ calls[c].matchedRule = NoRule

\* An operator was denied a low-risk raw operation that the first rule of
\* the list allows.
C21_Witness ==
  \E c \in Evaluated :
    /\ calls[c].tool = "telegram.bot.raw"
    /\ calls[c].principal.roles = {"operator"}
    /\ calls[c].riskLevel = "low"
    /\ calls[c].config = PolicyConfig
    /\ calls[c].rules = RawAllowPermissions
    /\ ~calls[c].allow

\* The decisions reached past the raw-tool gate and the risk/role floor.
PastRoleChecks ==
  {c \in Evaluated :
     /\ calls[c].tool = "telegram.bot.raw" =>
          calls[c].principal.roles \cap calls[c].config.allowRawToolForRoles # {}
     /\ \E role \in calls[c].principal.roles :
          RiskRank(calls[c].riskLevel) <= RoleCeiling(role)}

\* The rule at position i of the list names the tool, and the operation or "*".
Applies(rules, i, call) ==
  /\ rules[i].tool = call.tool
  /\ rules[i].operations \cap {call.operation, "*"} # {}

\* C22: past the raw-tool and risk/role checks, the first rule in list order
\* whose tool is the requested tool and whose operations contain the
\* requested operation or "*" decides, allow or deny, and is the matched
\* rule, later matching rules being ignored; with no such rule the decision
\* is the configured default effect and no rule is matched.
C22_FirstMatch ==
  \A c \in PastRoleChecks :
    LET call == calls[c]
        rules == call.rules
    IN /\ \A i \in 1..Len(rules) :
            (Applies(rules, i, call)
               /\ \A j \in 1..(i - 1) : ~Applies(rules, j, call)) =>
              /\ call.matchedRule = rules[i]
              /\ call.allow = (rules[i].effect = "allow")
              /\ call.reason = IF rules[i].effect = "allow"
                               THEN "explicit allow rule matched"
                               ELSE "explicit deny rule matched"
       /\ (\A i \in 1..Len(rules) : ~Applies(rules, i, call)) =>
            /\ call.matchedRule = NoRule
            /\ call.allow = (call.config.defaultEffect = "allow")
            /\ call.reason = IF call.config.defaultEffect = "allow"
                             THEN "default policy effect: allow"
                             ELSE "default policy effect: deny"

\* The first rule for edit_chat_title denies and a later rule allows every
\* operation of the tool: the decision is the first rule's.
C22_Witness ==
  \E c \in PastRoleChecks :
    /\ calls[c].rules = DenyEditPermissions
    /\ calls[c].tool = "telegram.v2.chats"
    /\ calls[c].operation = "edit_chat_title"
    /\ calls[c].matchedRule = DenyEditPermissions[1]
    /\ Applies(DenyEditPermissions, 2, calls[c])
    /\ DenyEditPermissions[2].effect = "allow"
    /\ ~calls[c].allow

\* The reasons a decision can carry.
DecisionReasons ==
  {"raw tool denied by role policy", "explicit deny rule matched",
   "explicit allow rule matched", "default policy effect: allow",
   "default policy effect: deny"}
    \cup {RoleRiskReason(riskLevel) : riskLevel \in RiskLevels}

\* Two evaluate calls were given the same principal, tool, operation and
\* risk level by engines of the same configuration and rule list.
SameInputs(c, d) ==
  /\ calls[c].config = calls[d].config
  /\ calls[c].rules = calls[d].rules
  /\ calls[c].principal = calls[d].principal
  /\ calls[c].tool = calls[d].tool
  /\ calls[c].operation = calls[d].operation
  /\ calls[c].riskLevel = calls[d].riskLevel

\* C23: evaluate is total and deterministic.  Every call returns a decision;
\* two calls with identical inputs against the same rule list return
\* identical decisions, whatever the deny counter stands at and whether or
\* not there is a metrics collaborator.
C23_Deterministic ==
  /\ \A c \in Evaluated :
       /\ calls[c].pc = "done"
       /\ calls[c].outcome = "ok"
       /\ calls[c].allow \in BOOLEAN
       /\ calls[c].reason \in DecisionReasons
       /\ \/ calls[c].matchedRule = NoRule
          \/ \E i \in 1..Len(calls[c].rules) :
               calls[c].matchedRule = calls[c].rules[i]
  /\ \A c, d \in Evaluated :
       SameInputs(c, d) =>
         /\ calls[c].allow = calls[d].allow
         /\ calls[c].reason = calls[d].reason
         /\ calls[c].matchedRule = calls[d].matchedRule

\* Two calls with the same inputs were denied alike, one by an engine
\* without metrics, one by an engine whose deny counter went from 1 to 2.
C23_Witness ==
  \E c, d \in Evaluated :
    /\ c # d
    /\ SameInputs(c, d)
    /\ calls[c].metrics = NoMetrics
    /\ calls[d].metrics = 1
    /\ calls[d].denies = 2
    /\ ~calls[c].allow
    /\ ~calls[d].allow

\* Every decision was taken against a whole rule list, one that was handed
\* to updatePermissions or the list of startup.
WholeListRead ==
  \A c \in Evaluated :
    /\ calls[c].rules \in PolicyRuleLists
    /\ LET decision == evaluate(calls[c].config, calls[c].metrics,
                                calls[c].rules, calls[c].principal,
                                calls[c].tool, calls[c].operation,
                                calls[c].riskLevel)
       IN /\ calls[c].allow = decision.allow
          /\ calls[c].reason = decision.reason
          /\ calls[c].matchedRule = decision.matchedRule

\* updatePermissions leaves a whole list of PolicyRuleLists behind, and an
\* evaluate that starts reads the list the last updatePermissions left.
WholeListWritten ==
  /\ permissions' # permissions => permissions' \in PolicyRuleLists
  /\ \A c \in Slots :
       (calls[c].kind = "idle" /\ calls'[c].kind = "evaluate") =>
         (calls'[c].rules = permissions /\ permissions' = permissions)

\* C24: updatePermissions replaces the rule list as a whole.  An evaluate
\* decides against the complete old list or the complete new list, never a
\* mixture of the two, and an evaluate that starts after updatePermissions
\* has returned uses the new list.
C24_WholeList == []WholeListRead /\ [][WholeListWritten]_vars

\* A decision was taken against a list that updatePermissions installed.
C24_Witness ==
  \E c \in Evaluated :
    /\ calls[c].rules = RawAllowPermissions
    /\ permissions = RawAllowPermissions
    /\ calls[c].matchedRule = RawAllowPermissions[3]

\* The levels classifyRisk has returned.
Classified == {c \in Slots : calls[c].kind = "classifyRisk"}

\* The rule at position i of RULES matches the key `${tool}.${operation}`.
RuleHits(i, call) ==
  PatternTest(RULES[i].pattern, KeySegments(call.tool, call.operation))

\* C25: classifyRisk returns the level of the first rule of RULES, in the
\* order of RULES, that matches the key, whatever a later matching rule or
\* defaultRisk would give; with no matching rule it returns defaultRisk, or
\* low when defaultRisk is absent.
C25_FirstRule ==
  \A c \in Classified :
    LET call == calls[c]
    IN /\ \A i \in 1..Len(RULES) :
            (RuleHits(i, call) /\ \A j \in 1..(i - 1) : ~RuleHits(j, call)) =>
              call.riskLevel = RULES[i].riskLevel
       /\ (\A i \in 1..Len(RULES) : ~RuleHits(i, call)) =>
            call.riskLevel = IF call.defaultRisk = NoRisk THEN "low"
                             ELSE call.defaultRisk

\* telegram.v2.approval.revoke matches the first rule (high) and the second
\* (critical); with a default of low, the level returned is high.
C25_Witness ==
  \E c \in Classified :
    /\ calls[c].tool = "telegram.v2.approval"
    /\ calls[c].operation = "revoke"
    /\ calls[c].defaultRisk = "low"
    /\ RuleHits(1, calls[c])
    /\ RuleHits(2, calls[c])
    /\ RULES[2].riskLevel = "critical"
    /\ calls[c].riskLevel = "high"

\* The calls of the two approval tools that a principal without owner or
\* admin has made.
Unprivileged ==
  {c \in Slots :
     /\ calls[c].kind \in {"approval.request", "approval.execute"}
     /\ calls[c].principal.roles \cap {"owner", "admin"} = {}}

\* Such a call has failed with the error of its tool, holding no token and
\* having taken no step; a token is held, and a target reached through
\* approval.execute, only by a principal with owner or admin.
PrivilegedOnly ==
  /\ \A c \in Unprivileged :
       /\ calls[c].pc = "done"
       /\ calls[c].outcome =
            IF calls[c].kind = "approval.request"
            THEN "approval.request requires admin or owner role"
            ELSE "approval.execute requires admin or owner role"
       /\ calls[c].issuedToken = NoToken
       /\ calls[c].approvalId = 0
       /\ calls[c].steps = <<>>
       /\ calls[c].executions = 0
  /\ \A c \in Slots :
       (calls[c].issuedToken # NoToken \/ calls[c].via = "approval.execute") =>
         (calls[c].kind = "idle"
            \/ calls[c].principal.roles \cap {"owner", "admin"} # {}
            \/ c \in Unprivileged)
  /\ \A i \in 1..Len(approval_requests) :
       approval_requests[i].principalSubject \notin {Bob.subject}

\* The step that such a call is made of creates no approval request, no
\* token and no audit event, and executes nothing.
UnprivilegedStep ==
  \A c \in Slots :
    (calls'[c].kind \in {"approval.request", "approval.execute"}
       /\ calls'[c].principal.roles \cap {"owner", "admin"} = {}) =>
      /\ approval_requests' = approval_requests
      /\ approval_tokens' = approval_tokens
      /\ audit_events' = audit_events
      /\ idempotency_records' = idempotency_records
      /\ executed' = executed

\* C26: telegram.v2.approval.request issues a token only to a principal
\* holding owner or admin, and for any other principal fails before an
\* approval request, a token or an audit event is created;
\* telegram.v2.approval.execute rejects such a principal before the target
\* tool is invoked.
C26_PrivilegedOnly == []PrivilegedOnly /\ [][UnprivilegedStep]_vars

\* Bob, an operator, presented a token that is issued and still active to
\* approval.execute, and was rejected.
C26_Witness ==
  \E c \in Unprivileged :
    /\ calls[c].kind = "approval.execute"
    /\ calls[c].principal = Bob
    /\ calls[c].approvalToken \in issued
    /\ \E i \in TokenRows(sha256(calls[c].approvalToken)) :
         approval_tokens[i].status = "active"

\* The plaintext tokens that have been generated.
Plaintexts == {Token(n) : n \in 1..Len(approval_tokens)}

\* The columns of the approval store, the fields of an audit event and the
\* fields of the two projections.
TokenColumns ==
  {"id", "approvalRequestId", "tokenHash", "status", "expiresAt", "usedAt"}
RequestColumns ==
  {"id", "principalSubject", "tool", "operation", "riskLevel", "payloadHash",
   "status", "expiresAt"}
AuditFields ==
  {"action", "principalSubject", "tool", "operation", "allowed", "reason",
   "riskLevel", "approvalId", "error", "metadata"}
MetadataFields == {"targetTool", "targetOperation", "expiresAt"}

\* The approval store holds the SHA-256 hash of each token and no plaintext.
StoreHoldsHashes ==
  /\ \A i \in 1..Len(approval_tokens) :
       /\ DOMAIN approval_tokens[i] = TokenColumns
       /\ approval_tokens[i].tokenHash = sha256(Token(i))
       /\ approval_tokens[i].tokenHash \notin Plaintexts
       /\ approval_tokens[i].usedAt \notin Plaintexts
  /\ \A i \in 1..Len(approval_requests) :
       /\ DOMAIN approval_requests[i] = RequestColumns
       /\ approval_requests[i].payloadHash \notin Plaintexts

\* No audit event has a field for the token.
AuditHoldsNoToken ==
  \A i \in 1..Len(audit_events) :
    /\ DOMAIN audit_events[i] \subseteq AuditFields
    /\ "metadata" \in DOMAIN audit_events[i] =>
         DOMAIN audit_events[i].metadata \subseteq MetadataFields

\* Neither projection has a field for the token.
ProjectionsHoldNoToken ==
  \A c \in Slots :
    /\ calls[c].kind = "approval.status" =>
         /\ DOMAIN calls[c].response = {"ok", "status"}
         /\ DOMAIN calls[c].response.status \subseteq RequestColumns
         /\ calls[c].response.status # NoRequest =>
              calls[c].response.status.payloadHash \notin Plaintexts
    /\ calls[c].kind = "approvals.recent" =>
         /\ DOMAIN calls[c].response = {"ok", "approvals"}
         /\ \A i \in 1..Len(calls[c].response.approvals) :
              DOMAIN calls[c].response.approvals[i] \subseteq RequestColumns

\* The token is in the hands of the call that issued it, and of the calls
\* it is presented to.
TokenReturnedAtIssuance ==
  \A c \in Slots :
    calls[c].issuedToken # NoToken =>
      /\ calls[c].kind \in {"approval.request", "requestApproval"}
      /\ calls[c].issuedToken \in Plaintexts

\* C27: the plaintext token appears only in the value returned at issuance.
\* The approval store holds its SHA-256 hash, and no audit event and no
\* approval status or list projection contains the plaintext.
C27_TokenConfined ==
  /\ StoreHoldsHashes
  /\ AuditHoldsNoToken
  /\ ProjectionsHoldNoToken
  /\ TokenReturnedAtIssuance

\* A token was issued, audited and used, and the list of recent approvals
\* was read.
C27_Witness ==
  \E c \in Slots :
    /\ calls[c].kind = "approvals.recent"
    /\ Len(calls[c].response.approvals) = 1
    /\ Len(approval_tokens) = 1
    /\ approval_tokens[1].status = "used"
    /\ Token(1) \in issued
    /\ \E i \in 1..Len(audit_events) : audit_events[i].action = "approval_request"
    /\ \E i \in 1..Len(audit_events) : audit_events[i].action = "tool_execute"

----------------------------------------------------------------------------
(* C28: a failed verification is not retryable *)

\* verifyAndConsume has thrown for the stored token n, whatever the reason.
Refused(n) ==
  \E c \in Slots :
    /\ calls[c].kind = "verifyAndConsume" /\ calls[c].pc = "done"
    /\ calls[c].tokenRow.id = n
    /\ calls[c].outcome # "ok"

\* verifyAndConsume has returned {approvalId} for the stored token n.
Accepted(n) ==
  \E c \in Slots :
    /\ calls[c].kind = "verifyAndConsume" /\ calls[c].pc = "done"
    /\ calls[c].tokenRow.id = n
    /\ calls[c].outcome = "ok"

\* C28: once verifyAndConsume has failed for a stored token, for whatever
\* reason (token expired, principal, action, risk or payload mismatch, request
\* expired, token not active), no later verifyAndConsume presenting that token
\* succeeds, whatever its arguments.
C28_NonRetryable ==
  \A n \in 1..MaxApprovals : [](Refused(n) => [](~Accepted(n)))

\* A call whose arguments all match the request, made before the expiry, is
\* refused for a token that no call was ever accepted for: only a failed call
\* can have used it.
C28_Witness ==
  \E c \in Slots :
    /\ calls[c].kind = "verifyAndConsume" /\ calls[c].pc = "done"
    /\ calls[c].tokenRow.id \in 1..Len(approval_requests)
    /\ verified[calls[c].tokenRow.id] = 0
    /\ calls[c].outcome = "Approval token is not active"
    /\ calls[c].tokenRow.expiresAt >= now
    /\ LET request == approval_requests[calls[c].tokenRow.approvalRequestId]
       IN /\ request.principalSubject = calls[c].principal.subject
          /\ request.tool = calls[c].tool
          /\ request.operation = calls[c].operation
          /\ request.riskLevel = calls[c].riskLevel
          /\ request.payloadHash = PayloadHash(calls[c].payload)
          /\ request.expiresAt >= now


----------------------------------------------------------------------------
(* C29: a consumed token stays used *)

\* The approval the n-th token was issued for backed an invocation whose
\* domain operation threw.
ConsumedThenFailed(n) ==
  \E i \in 1..Len(audit_events) :
    /\ audit_events[i].action = "tool_execute"
    /\ ~audit_events[i].allowed
    /\ audit_events[i].approvalId = approval_tokens[n].approvalRequestId

\* The invocation presents a stored token that an earlier invocation had
\* consumed before this one began, and has reached the approval step.
Retry(c) ==
  /\ calls[c].kind = "v2"
  /\ calls[c].sawVerified
  /\ calls[c].tokenRow # NoRow

\* C29: a token that verifyAndConsume accepted stays used, whether the domain
\* operation then returns, throws or is never heard of again, and an invocation
\* that presents it afterwards is refused at the approval step without
\* executing its domain operation.
C29_ConsumedStaysUsed ==
  /\ \A n \in DOMAIN approval_tokens :
       verified[n] > 0 => approval_tokens[n].status = "used"
  /\ \A c \in Slots :
       Retry(c) =>
         /\ calls[c].executions = 0
         /\ calls[c].approvalId = 0
         /\ calls[c].pc \in {"consumeToken.update", "verify.token", "done"}
         /\ calls[c].pc = "done" =>
              calls[c].outcome = "Approval token is not active"

\* A retry is refused for a token whose first invocation's domain operation
\* threw, before the approval has expired.
C29_Witness ==
  \E c \in Slots :
    /\ Retry(c) /\ calls[c].pc = "done"
    /\ ConsumedThenFailed(calls[c].tokenRow.id)
    /\ calls[c].tokenRow.expiresAt >= now
    /\ approval_tokens[calls[c].tokenRow.id].status = "used"

----------------------------------------------------------------------------
(* C30: the idempotency cache *)

\* What was last saved under the key is still to be served at time t.
Live(saved, t) ==
  saved.response # NoResponse /\ t < saved.savedAt + IdempotencyTtl

\* C30: tryGet returns the response last saved under the key until the
\* record's expiry, 300 seconds after that save, and null when nothing was
\* saved or the expiry is reached; a save under a key that has a record
\* replaces the response and the expiry of that one record.
C30_Cache ==
  /\ \A c \in Slots :
       calls[c].kind = "tryGet" /\ calls[c].pc = "done" =>
         calls[c].response =
           IF Live(calls[c].sawReturned, calls[c].lookupAt)
           THEN calls[c].sawReturned.response ELSE NoResponse
  /\ \A key \in IdempotencyKeys :
       IF returned[key].response = NoResponse
       THEN key \notin DOMAIN idempotency_records
       ELSE /\ key \in DOMAIN idempotency_records
            /\ idempotency_records[key].response = returned[key].response
            /\ idempotency_records[key].expiresAt =
                 returned[key].savedAt + IdempotencyTtl

\* A lookup returns an envelope saved under a key whose record another
\* operation's save had created: the later save replaced the response, and did
\* so after the first record's expiry.
C30_Witness ==
  \E c \in Slots :
    /\ calls[c].kind = "tryGet" /\ calls[c].pc = "done"
    /\ calls[c].response # NoResponse
    /\ calls[c].response.operation = "edit_chat_title"
    /\ idempotency_records[calls[c].idempotencyKey].operation =
         <<"telegram.v2.chats", "get_chats">>
    /\ calls[c].sawReturned.savedAt > IdempotencyTtl

----------------------------------------------------------------------------
(* EncryptionService: AES-256-GCM under the master key *)

\* A JavaScript string is a sequence of UTF-16 code units: "a" and "b" are
\* ASCII characters, "D800" is a surrogate without its pair, "FFFD" is the
\* replacement character.  A Buffer is a sequence of bytes.
Str(units) == [type |-> "string", units |-> units]
Buf(bytes) == [type |-> "buffer", bytes |-> bytes]

\* Buffer.from(string, "utf8"): a lone surrogate is written as EF BF BD.
RECURSIVE Utf8Encode(_)
Utf8Encode(units) ==
  IF units = <<>> THEN <<>>
  ELSE (CASE Head(units) = "a" -> <<97>>
          [] Head(units) = "b" -> <<98>>
          [] OTHER -> <<239, 191, 189>>) \o Utf8Encode(Tail(units))

\* buffer.toString("utf8"): a byte that starts no valid sequence is read as
\* the replacement character.
RECURSIVE Utf8Decode(_)
Utf8Decode(bytes) ==
  IF bytes = <<>> THEN <<>>
  ELSE IF Head(bytes) = 97 THEN <<"a">> \o Utf8Decode(Tail(bytes))
  ELSE IF Head(bytes) = 98 THEN <<"b">> \o Utf8Decode(Tail(bytes))
  ELSE IF Len(bytes) >= 3 /\ SubSeq(bytes, 1, 3) = <<239, 191, 189>>
  THEN <<"FFFD">> \o Utf8Decode(SubSeq(bytes, 4, Len(bytes)))
  ELSE <<"FFFD">> \o Utf8Decode(Tail(bytes))

\* buffer.toString("base64") and Buffer.from(text, "base64"): the text is the
\* bytes it stands for and its spelling; the decoder skips white space, so a
\* respelled text decodes to the same bytes.
ToBase64(bytes) == [bytes |-> bytes, spelling |-> "canonical"]
FromBase64(text) == text.bytes

\* AES-256-GCM as an ideal cipher.  The ciphertext names what it decrypts to
\* under its key and IV; the tag names what it authenticates and its length
\* in bytes.
GcmTagLength == 16
\* Tag lengths decipher.setAuthTag accepts when createDecipheriv is given no
\* authTagLength, as here.
AcceptedTagLengths == {4, 8, 12, 13, 14, 15, 16}
Ciphertext(key, iv, bytes) == [key |-> key, iv |-> iv, bytes |-> bytes]
AuthTag(key, iv, ciphertext, length) ==
  [key |-> key, iv |-> iv, ciphertext |-> ciphertext, length |-> length]

\* decipher.final(): throws unless the tag authenticates the ciphertext under
\* the key and the IV.
Authenticates(key, iv, ciphertext, authTag) ==
  /\ authTag.key = key /\ authTag.iv = iv
  /\ authTag.ciphertext = ciphertext
  /\ authTag.length \in AcceptedTagLengths

\* new EncryptionService(masterKey, previousMasterKey); 0 is no previous key.
NoPreviousKey == 0
EncryptionService(masterKey, previousMasterKey) ==
  [currentKey |-> masterKey, previousKey |-> previousMasterKey]

\* EncryptionService.encrypt, iv being what randomBytes returned.
encrypt(service, plaintext, iv) ==
  LET payload == IF plaintext.type = "string"
                 THEN Utf8Encode(plaintext.units) ELSE plaintext.bytes
      ciphertext == Ciphertext(service.currentKey, iv, payload)
  IN [keyVersion |-> 2,
      iv |-> ToBase64(iv),
      ciphertext |-> ToBase64(ciphertext),
      authTag |-> ToBase64(AuthTag(service.currentKey, iv, ciphertext,
                                   GcmTagLength))]

\* The keys decrypt tries, in order.
tryKeys(service) ==
  IF service.previousKey # NoPreviousKey
  THEN << [key |-> service.currentKey, version |-> 2],
          [key |-> service.previousKey, version |-> 1] >>
  ELSE << [key |-> service.currentKey, version |-> 2] >>

\* One pass of the loop of decrypt: the candidate is skipped, throws, or
\* yields the plaintext.
TryCandidate(candidate, payload) ==
  LET iv == FromBase64(payload.iv)
      ciphertext == FromBase64(payload.ciphertext)
      authTag == FromBase64(payload.authTag)
  IN IF payload.keyVersion > 0 /\ payload.keyVersion # candidate.version
     THEN [ok |-> FALSE, plaintext |-> <<>>]
     ELSE IF Authenticates(candidate.key, iv, ciphertext, authTag)
     THEN [ok |-> TRUE, plaintext |-> Utf8Decode(ciphertext.bytes)]
     ELSE [ok |-> FALSE, plaintext |-> <<>>]

\* EncryptionService.decrypt: the first candidate that yields a plaintext, or
\* the error thrown after the loop.
decrypt(service, payload) ==
  LET candidates == tryKeys(service)
      hits == {i \in 1..Len(candidates) :
                 TryCandidate(candidates[i], payload).ok}
  IN IF hits = {}
     THEN [ok |-> FALSE, plaintext |-> <<>>]
     ELSE TryCandidate(
            candidates[CHOOSE i \in hits : \A j \in hits : i <= j],
            payload)

\* What is done to a stored EncryptedValue before it is read again.
Alterations ==
  {"ciphertext", "iv", "authTag", "authTagTruncated", "ciphertextRespelled"}
OtherIv(iv) == IF iv = 1 THEN 2 ELSE 1
Alter(value, how) ==
  CASE how = "ciphertext" ->
         [value EXCEPT !.ciphertext =
            ToBase64([FromBase64(@) EXCEPT !.bytes = @ \o <<97>>])]
    [] how = "iv" -> [value EXCEPT !.iv = ToBase64(OtherIv(FromBase64(@)))]
    [] how = "authTag" ->
         [value EXCEPT !.authTag =
            ToBase64([FromBase64(@) EXCEPT !.iv = OtherIv(@)])]
    [] how = "authTagTruncated" ->
         [value EXCEPT !.authTag =
            ToBase64([FromBase64(@) EXCEPT !.length = 4])]
    [] how = "ciphertextRespelled" ->
         [value EXCEPT !.ciphertext.spelling = "spaced"]
    [] OTHER -> value

MasterKeys == {11, 12}
Ivs == {1, 2}
EncryptedPlaintexts ==
  { Str(<<>>), Str(<<"a">>), Str(<<"a", "b">>), Str(<<"a", "D800">>),
    Buf(<<97, 98>>), Buf(<<97, 255>>) }
\* The key alone, and each key with the other as the previous key.
Services ==
  { EncryptionService(k, p) :
      k \in MasterKeys, p \in MasterKeys \cup {NoPreviousKey} }

\* service.encrypt(plaintext); the caller stores the value.
Encrypt(c, service, plaintext, iv) ==
  /\ FreeSlot(c)
  /\ calls' = [calls EXCEPT ![c] =
       [IdleCall EXCEPT !.kind = "encryption", !.pc = "stored",
                        !.crypto = [plaintext |-> plaintext,
                                    by |-> service,
                                    value |-> encrypt(service, plaintext, iv),
                                    encrypted |-> encrypt(service, plaintext, iv),
                                    altered |-> "none"]]]
  /\ UNCHANGED <<now, approval_requests, approval_tokens, idempotency_records,
                 audit_events, permissions, verified, issued, executed,
                 returned>>

\* The stored value is altered.
AlterStored(c, how) ==
  /\ calls[c].pc = "stored"
  /\ calls[c].crypto.altered = "none"
  /\ calls' = [calls EXCEPT ![c].crypto.value = Alter(@, how),
                            ![c].crypto.altered = how]
  /\ UNCHANGED <<now, approval_requests, approval_tokens, idempotency_records,
                 audit_events, permissions, verified, issued, executed,
                 returned>>

\* service.decrypt(value) by an instance of the service.
Decrypt(c, service) ==
  /\ calls[c].pc = "stored"
  /\ LET decrypted == decrypt(service, calls[c].crypto.value)
     IN calls' = [calls EXCEPT
          ![c].pc = "done",
          ![c].outcome = IF decrypted.ok THEN "ok"
                         ELSE "Unable to decrypt payload with available keys",
          ![c].crypto = [f \in DOMAIN @ \cup {"service", "decrypted"} |->
                           IF f = "service" THEN service
                           ELSE IF f = "decrypted" THEN decrypted.plaintext
                           ELSE @[f]]]
  /\ UNCHANGED <<now, approval_requests, approval_tokens, idempotency_records,
                 audit_events, permissions, verified, issued, executed,
                 returned>>

EncryptionNext ==
  \/ Return(1)
  \/ \E service \in Services, plaintext \in EncryptedPlaintexts, iv \in Ivs :
       Encrypt(1, service, plaintext, iv)
  \/ \E how \in Alterations : AlterStored(1, how)
  \/ \E service \in Services : Decrypt(1, service)

SpecEncryption == Init /\ [][EncryptionNext]_vars

----------------------------------------------------------------------------
(* C31, C32: encryption round trip, tampering and key rotation *)

Decrypted(c) == calls[c].kind = "encryption" /\ calls[c].pc = "done"

\* decrypt returned the plaintext that was given to encrypt.
ReturnsPlaintext(c) ==
  /\ calls[c].outcome = "ok"
  /\ IF calls[c].crypto.plaintext.type = "string"
     THEN calls[c].crypto.decrypted = calls[c].crypto.plaintext.units
     ELSE Utf8Encode(calls[c].crypto.decrypted) = calls[c].crypto.plaintext.bytes

\* C31: under the key it was encrypted with, an unaltered value decrypts to
\* the plaintext given to encrypt; a value whose ciphertext, IV or auth tag
\* was altered makes decrypt throw; and decrypt never returns another
\* plaintext than the one encrypted.
C31_RoundTripAndTamper ==
  \A c \in Slots :
    Decrypted(c) =>
      /\ ( /\ calls[c].crypto.altered = "none"
           /\ calls[c].crypto.service.currentKey = calls[c].crypto.by.currentKey )
         => ReturnsPlaintext(c)
      /\ calls[c].crypto.altered # "none" => calls[c].outcome # "ok"
      /\ calls[c].outcome = "ok" => ReturnsPlaintext(c)

\* C32: a value encrypted by an instance whose master key was K is decrypted
\* by an instance that has a new master key and K as its previous master key.
C32_RotationFallback ==
  \A c \in Slots :
    ( /\ Decrypted(c)
      /\ calls[c].crypto.altered = "none"
      /\ calls[c].crypto.service.previousKey = calls[c].crypto.by.currentKey
      /\ calls[c].crypto.service.currentKey # calls[c].crypto.by.currentKey )
    => ReturnsPlaintext(c)

----------------------------------------------------------------------------
(* C33: who is served a cached response *)

\* The tool_execute event of the invocation that last ran its domain
\* operation to the end: under SpecSharedKey, where every invocation carries
\* the same key, the invocation whose envelope the key's record holds.
ExecuteEvents ==
  {i \in 1..Len(audit_events) :
     audit_events[i].action = "tool_execute" /\ audit_events[i].allowed}
LastExecuteEvent ==
  audit_events[CHOOSE i \in ExecuteEvents : \A j \in ExecuteEvents : j <= i]

\* C33: an invocation is served a cached response only if the invocation that
\* stored it had the same principal, tool and operation.
C33_CacheBoundToCaller ==
  \A c \in Slots :
    calls[c].hit =>
      /\ ExecuteEvents # {}
      /\ LastExecuteEvent.principalSubject = calls[c].principal.subject
      /\ LastExecuteEvent.tool = calls[c].tool
      /\ LastExecuteEvent.operation = calls[c].operation

----------------------------------------------------------------------------
(* C34, C35: storage failures inside an invocation *)

\* C34: a tool_execute event of an invocation says allowed = true exactly if
\* the invocation's domain operation returned, also when the save or the audit
\* write after it failed.
C34_AllowedIffReturned ==
  \A c \in Slots :
    \A i \in WroteOf(calls[c], "tool_execute") :
      calls[c].wrote[i].allowed <=> calls[c].result # "none"

\* The tool_authorize write of the invocation failed.
AuthorizeWriteFailed(c) ==
  /\ calls[c].kind = "v2"
  /\ calls[c].error = StorageError
  /\ WroteOf(calls[c], "tool_authorize") = {}

\* C35: an invocation whose tool_authorize write failed has thrown the
\* write's error and has made no idempotency lookup, consumed no approval
\* token and run no domain operation.
C35_AuthorizeFailClosed ==
  \A c \in Slots :
    AuthorizeWriteFailed(c) =>
      /\ calls[c].pc = "done"
      /\ calls[c].outcome = StorageError
      /\ calls[c].steps = <<>>
      /\ calls[c].executions = 0
      /\ calls[c].tokenRow = NoRow
      /\ ~calls[c].hit

\* Such an invocation presented a token, which is still active, for an
\* operation the policy allows.
C35_Witness ==
  \E c \in Slots :
    /\ AuthorizeWriteFailed(c)
    /\ calls[c].allow
    /\ calls[c].approvalToken # NoToken
    /\ \A i \in TokenRows(sha256(calls[c].approvalToken)) :
         approval_tokens[i].status = "active"
    /\ TokenRows(sha256(calls[c].approvalToken)) # {}

----------------------------------------------------------------------------
(* TelegramBotApiClient.callApi *)

\* config.telegram.maxRetries ranges over 0..MaxRetriesBound here (the schema
\* allows 0..10).
MaxRetriesBound == 2

\* What one HTTP attempt ends in: a response with its status and the
\* error_code of its JSON body (0: the body has none), or fetch rejecting on a
\* network error or the request timeout (status 0).
NetworkError == [status |-> 0, error_code |-> 0]
Replies ==
  {NetworkError}
    \cup [status : {200, 400, 401, 403, 429, 500}, error_code : {0}]
    \cup {[status |-> st, error_code |-> st] : st \in {400, 401, 403, 429, 500}}
    \cup {[status |-> 200, error_code |-> 400]}

\* response.ok && json.ok: a 2xx response whose body reports no error.
Succeeded(reply) ==
  reply.status >= 200 /\ reply.status < 300 /\ reply.error_code = 0

\* json.error_code ?? response.status
ErrorCode(reply) ==
  IF reply.error_code # 0 THEN reply.error_code ELSE reply.status

\* The condition of the retry inside the try block.
Retryable(reply, attempt, maxRetries) ==
  /\ attempt < maxRetries
  /\ ErrorCode(reply) = 429 \/ ErrorCode(reply) >= 500 \/ reply.status >= 500

\* The condition of the retry inside the catch block, which also catches the
\* error thrown in the try block for a response that is not retried there.
CatchRetriesOnceMore(attempt, maxRetries) == attempt <= maxRetries
CatchRetries(attempt, maxRetries) == attempt < maxRetries

\* callApi up to its first fetch.
CallApiStart(c, maxRetries) ==
  /\ FreeSlot(c)
  /\ calls' = [calls EXCEPT ![c] =
       [IdleCall EXCEPT !.kind = "callApi", !.pc = "fetch",
                        !.http = [NoHttp EXCEPT !.maxRetries = maxRetries]]]
  /\ UNCHANGED <<now, approval_requests, approval_tokens, idempotency_records,
                 audit_events, permissions, verified, issued, executed,
                 returned>>

\* One HTTP attempt ends, and the code runs up to the sleep, the return or
\* the throw.  retried lists the replies after which the call went on to
\* another attempt.
Fetch(c, reply) ==
  /\ NoneDone
  /\ calls[c].pc = "fetch"
  /\ LET http == calls[c].http
         again == IF reply = NetworkError
                  THEN CatchRetries(http.attempt, http.maxRetries)
                  ELSE /\ ~Succeeded(reply)
                       /\ \/ Retryable(reply, http.attempt, http.maxRetries)
                          \/ CatchRetries(http.attempt, http.maxRetries)
     IN calls' = [calls EXCEPT
          ![c].http = [http EXCEPT
             !.fetches = @ + 1,
             !.attempt = IF again THEN @ + 1 ELSE @,
             !.retried = IF again THEN Append(@, reply) ELSE @],
          ![c].pc = IF again THEN "sleep" ELSE "done",
          ![c].outcome = IF again THEN "pending"
                         ELSE IF reply = NetworkError THEN "network error"
                         ELSE IF Succeeded(reply) THEN "ok"
                         ELSE "Telegram API error"]
  /\ UNCHANGED <<now, approval_requests, approval_tokens, idempotency_records,
                 audit_events, permissions, verified, issued, executed,
                 returned>>

\* await sleep(waitMs) ends and the loop goes round.
Sleep(c) ==
  /\ NoneDone
  /\ calls[c].pc = "sleep"
  /\ calls' = [calls EXCEPT ![c].pc = "fetch"]
  /\ UNCHANGED <<now, approval_requests, approval_tokens, idempotency_records,
                 audit_events, permissions, verified, issued, executed,
                 returned>>

ClientNext ==
  \/ Return(1)
  \/ \E maxRetries \in 0..MaxRetriesBound : CallApiStart(1, maxRetries)
  \/ \E reply \in Replies : Fetch(1, reply)
  \/ Sleep(1)

\* Every HTTP attempt ends, by the request timeout at the latest, and every
\* sleep ends.
SpecClient ==
  /\ Init /\ [][ClientNext]_vars
  /\ WF_vars(\E reply \in Replies : Fetch(1, reply))
  /\ WF_vars(Sleep(1))

----------------------------------------------------------------------------
(* C37, C38: the attempts of callApi *)

Calling(c) == calls[c].kind = "callApi"

\* C37: a call of callApi makes at most maxRetries + 1 HTTP attempts, whatever
\* the attempts end in, and it ends: it returns the result or throws.
C37_BoundedAttempts ==
  /\ [](\A c \in Slots :
          Calling(c) =>
            /\ calls[c].http.fetches <= calls[c].http.maxRetries + 1
            /\ calls[c].pc = "done" =>
                 calls[c].outcome \in {"ok", "network error", "Telegram API error"})
  /\ \A c \in Slots : (Calling(c) ~> (Calling(c) /\ calls[c].pc = "done"))

\* A call has used every attempt it may make: errors of both kinds, then the
\* result.
C37_Witness ==
  \E c \in Slots :
    /\ Calling(c) /\ calls[c].pc = "done" /\ calls[c].outcome = "ok"
    /\ calls[c].http.maxRetries = MaxRetriesBound
    /\ calls[c].http.fetches = MaxRetriesBound + 1
    /\ \E i, j \in 1..Len(calls[c].http.retried) :
         /\ calls[c].http.retried[i] = NetworkError
         /\ calls[c].http.retried[j].status = 500

\* C38: callApi goes on to another attempt only after a 429 response, a 5xx
\* response or a network or timeout error.
C38_RetryOnlyTransient ==
  \A c \in Slots :
    Calling(c) =>
      \A i \in 1..Len(calls[c].http.retried) :
        LET reply == calls[c].http.retried[i]
        IN \/ reply = NetworkError
           \/ ErrorCode(reply) = 429
           \/ ErrorCode(reply) >= 500
           \/ reply.status >= 500

----------------------------------------------------------------------------
(* C36: the approvalId of an invocation *)

\* The id of the approval request paired with the token the invocation
\* presented, or 0 (null) for an operation that needs no approval.
PairedApproval(call) ==
  IF isApprovalRequired(call.riskLevel)
  THEN LET rows == TokenRows(sha256(call.approvalToken))
       IN IF rows = {} THEN 0
          ELSE approval_tokens[CHOOSE i \in rows : TRUE].approvalRequestId
  ELSE 0

\* The invocation ran its domain operation and returned its own envelope.
ReturnedEnvelope(c) ==
  /\ calls[c].kind = "v2" /\ calls[c].pc = "done" /\ calls[c].outcome = "ok"
  /\ ~calls[c].hit /\ ~calls[c].dryRun

\* C36: the tool_execute event of an invocation and the envelope it returns
\* carry the id of the approval request paired with the token it consumed,
\* and null when the operation needed no approval.
C36_ApprovalIdRecorded ==
  \A c \in Slots :
    calls[c].kind = "v2" =>
      /\ \A i \in WroteOf(calls[c], "tool_execute") :
           calls[c].wrote[i].approvalId = PairedApproval(calls[c])
      /\ ReturnedEnvelope(c) =>
           calls[c].response.approvalId = PairedApproval(calls[c])

\* An invocation that consumed a token has returned: its envelope and its
\* tool_execute event name the token's approval request.
C36_Witness ==
  \E c \in Slots :
    /\ ReturnedEnvelope(c)
    /\ calls[c].tokenRow # NoRow
    /\ calls[c].response.approvalId = calls[c].tokenRow.approvalRequestId
    /\ calls[c].response.approvalId >= 1
    /\ WroteOf(calls[c], "tool_execute") # {}

----------------------------------------------------------------------------
(* C39: approval state only moves forward *)

\* The step a token row may take: none, or from active to used with usedAt
\* set by that step and nothing else changed.
TokenStep(old, new) ==
  \/ new = old
  \/ /\ old.status = "active" /\ new.status = "used"
     /\ old.usedAt = <<>> /\ new.usedAt # <<>>
     /\ new = [old EXCEPT !.status = "used", !.usedAt = new.usedAt]

\* C39: across requestApproval and verifyAndConsume no row of either table is
\* removed, a token's status moves only from active to used and its usedAt is
\* set only by that move, and an approval request's status, principal, tool,
\* operation, risk level and payload hash stay as created.
C39_Monotonic ==
  [][ /\ Len(approval_tokens') >= Len(approval_tokens)
      /\ Len(approval_requests') >= Len(approval_requests)
      /\ \A n \in DOMAIN approval_tokens :
           TokenStep(approval_tokens[n], approval_tokens'[n])
      /\ \A n \in DOMAIN approval_requests :
           /\ approval_requests'[n].status = approval_requests[n].status
           /\ approval_requests'[n].principalSubject
                = approval_requests[n].principalSubject
           /\ approval_requests'[n].tool = approval_requests[n].tool
           /\ approval_requests'[n].operation = approval_requests[n].operation
           /\ approval_requests'[n].riskLevel = approval_requests[n].riskLevel
           /\ approval_requests'[n].payloadHash
                = approval_requests[n].payloadHash ]_vars

\* consumeToken has run its UPDATE again on a token that was used at an
\* earlier time: the row keeps the time of its first use.
C39_Witness ==
  \E c \in Slots :
    /\ calls[c].pc = "verify.token"
    /\ calls[c].tokenRow # NoRow
    /\ calls[c].tokenRow.status = "used"
    /\ approval_tokens[calls[c].tokenRow.id].status = "used"
    /\ approval_tokens[calls[c].tokenRow.id].usedAt # <<>>
    /\ approval_tokens[calls[c].tokenRow.id].usedAt[1] < now

----------------------------------------------------------------------------
(* C40: the riskLevel of a configured rule *)

\* The rule list with the riskLevel of its i-th rule rewritten to levels[i].
Relabel(rules, levels) ==
  [i \in 1..Len(rules) |-> [rules[i] EXCEPT !.riskLevel = levels[i]]]

\* A decision with the riskLevel of the rule it names left out.
WithoutRuleRisk(decision) ==
  [allow |-> decision.allow, reason |-> decision.reason,
   matchedRule |-> [decision.matchedRule EXCEPT !.riskLevel = "low"]]

\* C40: evaluate matches a rule on tool and operations alone: the decision
\* it returned is the one it returns for the same rule list with any other
\* riskLevel values in its rules.
C40_RuleRiskIgnored ==
  \A c \in Evaluated :
    \A levels \in [1..Len(calls[c].rules) -> RiskLevels] :
      WithoutRuleRisk(evaluate(calls[c].config, calls[c].metrics,
                               Relabel(calls[c].rules, levels),
                               calls[c].principal, calls[c].tool,
                               calls[c].operation, calls[c].riskLevel))
        = WithoutRuleRisk([allow |-> calls[c].allow,
                           reason |-> calls[c].reason,
                           matchedRule |-> calls[c].matchedRule])

\* A rule decided an operation whose risk level is not the one the rule
\* carries.
C40_Witness ==
  \E c \in Evaluated :
    /\ calls[c].matchedRule # NoRule
    /\ calls[c].matchedRule.riskLevel # calls[c].riskLevel
    /\ calls[c].allow

====
